---- MODULE Spec2Model ----
(***************************************************************************)
(* VoiceBridge frontend: the history store kept in localStorage, the live  *)
(* transcription session, the audio capture controller and the input       *)
(* validation of the SpeechLab and VoicePersonalizer pages.                 *)
(*                                                                         *)
(* Text is a sequence of tokens: a token is a run of characters that the   *)
(* code never splits, and the token " " is one blank.  String              *)
(* concatenation is \o, the empty string is <<>>.                          *)
(***************************************************************************)
EXTENDS Integers, Sequences, FiniteSets, Bags, TLC

\* ------------------------------------------------------------------ bounds
MaxAppends == 60
MaxHistOps == 2
MaxEvents == 3
MaxDetached == 2
MaxRecorders == 2
MaxSoloRecorders == 1
MaxChunks == 1
MaxUploads == 1
MaxSpeaks == 1
MaxSamples == 10
MaxSpeakOps == 2
MaxPageOps == 1
MaxDeletes == 1
MaxFrames == 2
MaxChannels == 2

\* ------------------------------------------------------- program constants
\* existing.slice(0, 49): the entries kept behind the new one
HistorySliceEnd == 49
\* the cap of a collection: the new entry plus HistorySliceEnd kept ones
HistoryCap == HistorySliceEnd + 1
AccuracyFallback == 85
AccuracyWhisper == 95
AccuracyUpload == 92
RecordingDuration == 5
UploadDuration == 10
\* file.size > 100 * 1024 * 1024, in MB
UploadLimit == 100
\* useState(1.0) of playbackSpeed, in tenths
PlaybackSpeedDefault == 10

\* encodeWAV: the header of 44 bytes, 0x8000 and 0x7FFF
HeaderSize == 44
NegativeScale == 32768
PositiveScale == 32767
\* samples.length < 10
MinSamples == 10

VARIABLES
    \* localStorage: speechLab_stt_history, speechLab_tts_history.  A missing
    \* key reads as '[]' everywhere (getItem(..) || '[]'), so it is <<>>.
    sttStore, ttsStore,
    \* React state of SpeechLab: sttHistory, ttsHistory
    sttHistory, ttsHistory,
    \* generateUniqueId: whether crypto.randomUUID exists and, per
    \* collection, the next fresh identifier and the identifier generated last
    hasRandomUUID, nextId, lastId,
    \* history: per kind, the entries appended since the collection was last
    \* empty (newest first) and whether only appends touched it since then
    appended, onlyAppends,
    \* history: the operation that ran last and the stores before it
    lastOp, preStt, preTts,
    \* React state of SpeechLab
    isLiveTranscribing, interimTranscript, liveSessionText, transcribedText,
    language, autoSpeak, backendConnected, text, isLoading, isPlaying, audioFile,
    \* whether GET /api/health of the mount effect is still in flight
    healthPending,
    \* recognitionRef.current: the SpeechRecognition object of the last run
    \* of the setup effect, with the values its handlers closed over
    recognition,
    \* the earlier SpeechRecognition objects that can still deliver events
    detached,
    \* handleTextToSpeech calls in flight
    ttsOps,
    \* live session: the result events handled since the texts were last
    \* cleared, the handler that ran last, and whether a stream error was
    \* handled since the last start
    evLog, lastLive, sessionError,
    \* React state and refs of the recorder of SpeechLab
    isRecording, mediaRecorderRef, audioChunksRef,
    \* every startRecording call so far: its MediaRecorder, its microphone
    \* stream, its auto-stop timer and the values its closures hold
    recorders,
    \* the route shown: "speechlab" or "voice"
    page,
    \* the messages of the validation alerts shown so far
    alerts,
    \* every handleAudioUpload call that passed validation
    uploads,
    \* React state of VoicePersonalizer: samples, voiceSettings.name,
    \* isProcessing, history
    samples, voiceName, isProcessing, vpHistory,
    \* the request VoicePersonalizer awaits, the sample ids handed out so
    \* far, and localStorage voicePersonalizer_history
    vpOp, nextSample, vpStore,
    \* React state of SpeechLab: playbackSpeed, in tenths
    playbackSpeed,
    \* encodeWAV: the AudioBuffer handed to it and the buffer it returned
    audioBuffer, wavBuffer,
    \* a transcribeWithWhisper call on its own: its position, the blob it
    \* was given, whether decoding and encoding worked, the blob put in the
    \* form, the answer of the service
    whisper,
    \* React state of History: history
    history,
    \* VoicePersonalizer: recordingError, the deleteSample calls that await
    \* their request, and the alert opened by the latest handler
    recordingError, deleting, notice

histVars == <<sttStore, ttsStore, sttHistory, ttsHistory, hasRandomUUID,
              nextId, lastId, appended, onlyAppends, lastOp, preStt, preTts>>

uiVars == <<language, autoSpeak, backendConnected, text, isLoading, isPlaying,
            audioFile, healthPending>>

liveVars == <<isLiveTranscribing, interimTranscript, liveSessionText, transcribedText,
              recognition, detached, evLog, lastLive, sessionError>>

ttsVars == <<ttsOps>>

recVars == <<isRecording, mediaRecorderRef, audioChunksRef, recorders>>

vpVars == <<samples, voiceName, isProcessing, vpHistory, vpOp, nextSample, vpStore>>

pageVars == <<page, alerts, uploads, vpVars>>

wavVars == <<audioBuffer, wavBuffer, whisper>>

outVars == <<recordingError, deleting, notice>>

auxVars == <<playbackSpeed, wavVars, history, outVars>>

vars == <<histVars, uiVars, liveVars, ttsVars, recVars, pageVars, auxVars>>

\* ------------------------------------------------------------- helpers
Min(a, b) == IF a < b THEN a ELSE b

\* Array.prototype.slice(0, n)
JsSlice(s, n) == SubSeq(s, 1, Min(Len(s), n))

Languages == {"en", "es"}
Blank == " "

\* String.prototype.trim on a token sequence
RECURSIVE TrimLeft(_)
TrimLeft(s) == IF s # <<>> /\ Head(s) = Blank THEN TrimLeft(Tail(s)) ELSE s
RECURSIVE TrimRight(_)
TrimRight(s) ==
    IF s # <<>> /\ s[Len(s)] = Blank THEN TrimRight(SubSeq(s, 1, Len(s) - 1)) ELSE s
Trim(s) == TrimRight(TrimLeft(s))

\* ------------------------------------------------------- history store
\* generateUniqueId, for an entry of collection k: crypto.randomUUID() is
\* fresh; the fallback `id-${Date.now()}-${random}` is fresh, or repeats the
\* identifier generated last when both calls fall in one millisecond and
\* draw the same random string.  Identifiers are opaque: they are numbered
\* per collection, the only place where two of them are compared.
generateUniqueId(k) ==
    IF hasRandomUUID \/ lastId[k] = 0 THEN {nextId[k]} ELSE {nextId[k], lastId[k]}

STTItem(id, content, accuracy, lang, duration) ==
    [id |-> id, content |-> content, accuracy |-> accuracy, language |-> lang,
     duration |-> duration, type |-> "stt"]

TTSItem(id, content, voice, lang, duration) ==
    [id |-> id, content |-> content, voiceModel |-> voice, language |-> lang,
     duration |-> duration, type |-> "tts"]

\* a plausible slip: slice(0, 50) keeps one entry too many
saveHistory_slice50(existing, item) == <<item>> \o JsSlice(existing, HistorySliceEnd + 1)

\* [historyItem, ...existing.slice(0, 49)], the value written back by
\* saveSTTHistory and saveTTSHistory
saveHistory(existing, item) == <<item>> \o JsSlice(existing, HistorySliceEnd)

\* the bookkeeping of one generated identifier
IdStep(k, id) ==
    /\ nextId' = [nextId EXCEPT ![k] = @ + 1]
    /\ lastId' = [lastId EXCEPT ![k] = id]

\* saveSTTHistory as a step on the store
saveSTTHistory(id, content, accuracy, lang, duration) ==
    LET item == STTItem(id, content, accuracy, lang, duration) IN
    /\ sttStore' = saveHistory(sttStore, item)
    /\ appended' = [appended EXCEPT !.stt = <<item>> \o @]
    /\ IdStep("stt", id)

\* saveTTSHistory as a step on the store
saveTTSHistory(id, content, voice, lang, duration) ==
    LET item == TTSItem(id, content, voice, lang, duration) IN
    /\ ttsStore' = saveHistory(ttsStore, item)
    /\ appended' = [appended EXCEPT !.tts = <<item>> \o @]
    /\ IdStep("tts", id)

\* new Map(list.map(item => [item.id, item])): the keys in the order of
\* their first occurrence, each with the value of its last occurrence
FirstOccurrences(s) ==
    SelectSeq([i \in 1..Len(s) |-> [i |-> i, id |-> s[i].id]],
              LAMBDA p : \A j \in 1..(p.i - 1) : s[j].id # p.id)

LastIndexOf(s, id) ==
    CHOOSE i \in 1..Len(s) : s[i].id = id /\ \A j \in (i + 1)..Len(s) : s[j].id # id

\* Array.from(new Map(...).values())
UniqueById(s) ==
    LET keys == FirstOccurrences(s) IN
    [k \in 1..Len(keys) |-> s[LastIndexOf(s, keys[k].id)]]

Snapshot(op) ==
    /\ lastOp' = op
    /\ preStt' = sttStore
    /\ preTts' = ttsStore

\* ----------------------------------------------------- history actions
\* saveSTTHistory called on its own
SaveSTTHistoryCall(content, accuracy) ==
    /\ \E id \in generateUniqueId("stt") :
          saveSTTHistory(id, content, accuracy, "en", RecordingDuration)
    /\ Snapshot("saveSTT")
    /\ UNCHANGED <<ttsStore, sttHistory, ttsHistory, hasRandomUUID, onlyAppends>>

\* saveTTSHistory called on its own
SaveTTSHistoryCall(content) ==
    /\ \E id \in generateUniqueId("tts") :
          saveTTSHistory(id, content, "21m00Tcm4TlvDq8ikWAM", "en", Len(content))
    /\ Snapshot("saveTTS")
    /\ UNCHANGED <<sttStore, sttHistory, ttsHistory, hasRandomUUID, onlyAppends>>

\* cleanupDuplicateHistory: both collections rewritten without duplicates;
\* the in-memory lists are not reloaded
CleanupDuplicateHistory ==
    /\ sttStore' = UniqueById(sttStore)
    /\ ttsStore' = UniqueById(ttsStore)
    /\ onlyAppends' = [stt |-> onlyAppends.stt /\ sttStore' = sttStore,
                       tts |-> onlyAppends.tts /\ ttsStore' = ttsStore]
    /\ Snapshot("cleanup")
    /\ UNCHANGED <<sttHistory, ttsHistory, hasRandomUUID, nextId, lastId, appended>>

\* loadHistory: the in-memory lists read from storage
LoadHistory ==
    /\ sttHistory' = sttStore
    /\ ttsHistory' = ttsStore
    /\ Snapshot("load")
    /\ UNCHANGED <<sttStore, ttsStore, hasRandomUUID, nextId, lastId,
                   appended, onlyAppends>>

\* the mount effect of SpeechLab when the page is opened again with
\* nothing in flight: loadHistory(), then cleanupDuplicateHistory()
MountSpeechLab ==
    /\ sttHistory' = sttStore
    /\ ttsHistory' = ttsStore
    /\ sttStore' = UniqueById(sttStore)
    /\ ttsStore' = UniqueById(ttsStore)
    /\ onlyAppends' = [stt |-> onlyAppends.stt /\ sttStore' = sttStore,
                       tts |-> onlyAppends.tts /\ ttsStore' = ttsStore]
    /\ Snapshot("mount")
    /\ UNCHANGED <<hasRandomUUID, nextId, lastId, appended>>

\* a clearHistory that ignores its argument
ClearHistory_both(type) ==
    /\ type \in {"stt", "tts", "all"}
    /\ sttStore' = <<>> /\ sttHistory' = <<>>
    /\ ttsStore' = <<>> /\ ttsHistory' = <<>>
    /\ appended' = [stt |-> <<>>, tts |-> <<>>]
    /\ onlyAppends' = [stt |-> TRUE, tts |-> TRUE]
    /\ Snapshot("clear")
    /\ UNCHANGED <<hasRandomUUID, nextId, lastId>>

\* clearHistory(type): removeItem and the in-memory list emptied
ClearHistory(type) ==
    /\ type \in {"stt", "tts", "all"}
    /\ sttStore' = IF type \in {"stt", "all"} THEN <<>> ELSE sttStore
    /\ sttHistory' = IF type \in {"stt", "all"} THEN <<>> ELSE sttHistory
    /\ ttsStore' = IF type \in {"tts", "all"} THEN <<>> ELSE ttsStore
    /\ ttsHistory' = IF type \in {"tts", "all"} THEN <<>> ELSE ttsHistory
    /\ appended' = [stt |-> IF type \in {"stt", "all"} THEN <<>> ELSE appended.stt,
                    tts |-> IF type \in {"tts", "all"} THEN <<>> ELSE appended.tts]
    /\ onlyAppends' = [stt |-> type \in {"stt", "all"} \/ onlyAppends.stt,
                       tts |-> type \in {"tts", "all"} \/ onlyAppends.tts]
    /\ Snapshot("clear")
    /\ UNCHANGED <<hasRandomUUID, nextId, lastId>>

\* an upload input with no file chosen, and the audioFile state null
NoFile == [size |-> 0, type |-> "", ext |-> ""]

\* ------------------------------------------------------ text to speech
\* speechSynthesis.cancel(): every utterance being spoken is cut off
CancelUtterances(ops) ==
    [i \in 1..Len(ops) |->
        IF ops[i].pc = "speaking" THEN [ops[i] EXCEPT !.pc = "cancelled"] ELSE ops[i]]

\* ttsLanguageMap[language] || 'en-US'
ttsLanguageMap(l) ==
    CASE l = "en" -> "en-US"
      [] l = "es" -> "es-ES"
      [] OTHER -> "en-US"

NoUtterance == [lang |-> "none", rate |-> 0]

\* a handleTextToSpeech call: its text, the language and playbackSpeed of
\* the render that made it, the object URL of its clip ("none", "live",
\* "revoked") and its SpeechSynthesisUtterance
TTSOp(pc, textToSpeak, lang) ==
    [pc |-> pc, text |-> textToSpeak, lang |-> lang, rate |-> playbackSpeed,
     url |-> "none", utt |-> NoUtterance]

\* an utterance that ignores the settings
UtteranceFor_default(op) == [lang |-> "en-US", rate |-> PlaybackSpeedDefault]

\* utterance.lang = ttsLanguageMap[language] || 'en-US'; utterance.rate =
\* playbackSpeed
UtteranceFor(op) == [lang |-> ttsLanguageMap(op.lang), rate |-> op.rate]

\* realTextToSpeech from speechSynthesis.speak on: the call's own
\* utterance is being spoken
Speak(op) == [op EXCEPT !.pc = "speaking", !.utt = UtteranceFor(op)]

\* !textToSpeak.trim()
TextRejected(textToSpeak) == Trim(textToSpeak) = <<>>

\* handleTextToSpeech up to its first await, as seen by the closure that
\* calls it: cText, cConnected, cLang are the text, backendConnected and
\* language of the render that created the closure
HandleTextToSpeechBegin(customText, cText, cConnected, cLang) ==
    LET textToSpeak == IF customText # <<>> THEN customText ELSE cText IN
    IF TextRejected(textToSpeak)
    THEN /\ alerts' = alerts \cup {"Please enter some text to convert to speech."}
         /\ UNCHANGED <<ttsOps, isLoading, isPlaying>>
    ELSE /\ isLoading' = TRUE
         /\ UNCHANGED alerts
         /\ IF cConnected
            THEN /\ ttsOps' = Append(ttsOps, TTSOp("fetch", textToSpeak, cLang))
                 /\ UNCHANGED isPlaying
            ELSE /\ ttsOps' = Append(CancelUtterances(ttsOps),
                                     Speak(TTSOp("speaking", textToSpeak, cLang)))
                 /\ isPlaying' = TRUE

\* -------------------------------------------------------- live session
Hel == <<"hel">>
Hello == <<"hello">>
HelloWorld == <<"hello", " ", "world">>

Result(transcript, isFinal) == [transcript |-> transcript, isFinal |-> isFinal]

\* the results of one event from event.resultIndex on
LiveEvents ==
    { <<Result(Hel, FALSE)>>,
      <<Result(Hello, FALSE)>>,
      <<Result(HelloWorld, TRUE)>>,
      <<Result(Hello, TRUE), Result(Hel, FALSE)>> }

\* browserLanguageMap[language] || 'en-US'
browserLanguageMap(l) ==
    CASE l = "en" -> "en-US"
      [] l = "es" -> "es-ES"
      [] OTHER -> "en-US"

\* the loop of onresult: finalTranscript += transcript + ' '
RECURSIVE FinalTranscript(_)
FinalTranscript(ev) ==
    IF ev = <<>> THEN <<>>
    ELSE (IF Head(ev).isFinal THEN Head(ev).transcript \o <<Blank>> ELSE <<>>)
         \o FinalTranscript(Tail(ev))

\* the loop of onresult: interimTranscript += transcript
RECURSIVE InterimOf(_)
InterimOf(ev) ==
    IF ev = <<>> THEN <<>>
    ELSE (IF Head(ev).isFinal THEN <<>> ELSE Head(ev).transcript)
         \o InterimOf(Tail(ev))

\* a merge that appends the hypothesis to the one shown before
MergeResult_appendInterim(ev, interim, committed, transcribed) ==
    IF FinalTranscript(ev) # <<>>
    THEN [interim |-> <<>>,
          committed |-> committed \o <<Blank>> \o Trim(FinalTranscript(ev)),
          transcribed |-> transcribed \o <<Blank>> \o Trim(FinalTranscript(ev)),
          newText |-> Trim(FinalTranscript(ev))]
    ELSE [interim |-> interim \o InterimOf(ev), committed |-> committed,
          transcribed |-> transcribed, newText |-> <<>>]

\* a merge that replaces the session text by the finalized segment
MergeResult_replaceCommitted(ev, interim, committed, transcribed) ==
    IF FinalTranscript(ev) # <<>>
    THEN [interim |-> <<>>,
          committed |-> Trim(FinalTranscript(ev)),
          transcribed |-> transcribed \o <<Blank>> \o Trim(FinalTranscript(ev)),
          newText |-> Trim(FinalTranscript(ev))]
    ELSE [interim |-> InterimOf(ev), committed |-> committed,
          transcribed |-> transcribed, newText |-> <<>>]

\* onresult on the texts: a finalized segment is appended to the session
\* text and to the transcript and clears the interim text; otherwise the
\* interim text is replaced
MergeResult(ev, interim, committed, transcribed) ==
    IF FinalTranscript(ev) # <<>>
    THEN [interim |-> <<>>,
          committed |-> committed \o <<Blank>> \o Trim(FinalTranscript(ev)),
          transcribed |-> transcribed \o <<Blank>> \o Trim(FinalTranscript(ev)),
          newText |-> Trim(FinalTranscript(ev))]
    ELSE [interim |-> InterimOf(ev), committed |-> committed,
          transcribed |-> transcribed, newText |-> <<>>]

NoRecognition ==
    [status |-> "none", live |-> FALSE, autoSpeak |-> FALSE, lang |-> "none",
     connected |-> FALSE]

\* new SpeechRecognition() with its handlers, which close over the
\* isLiveTranscribing, autoSpeak and backendConnected of the render
NewRecognition(live, auto, lang, connected) ==
    [status |-> "idle", live |-> live, autoSpeak |-> auto,
     lang |-> browserLanguageMap(lang), connected |-> connected]

\* SpeechRecognition.stop(): a started stream stops listening; it may still
\* return results for the audio it has, and then ends
StopRecognition(r) ==
    IF r.status = "started" THEN [r EXCEPT !.status = "stopping"] ELSE r

CanDeliver(r) == r.status \in {"started", "stopping"}
WillEnd(r) == r.status \in {"started", "stopping", "failed"}

\* the setup effect, run again because language, isLiveTranscribing or
\* autoSpeak changed: the cleanup stops recognitionRef.current, the body
\* creates a new object that is not started.  rec and det are the objects
\* as the handler left them.
RunSetupEffect(rec, det, live, auto, lang, connected) ==
    IF rec.status = "none"
    THEN /\ recognition' = rec
         /\ detached' = det
    ELSE /\ recognition' = NewRecognition(live, auto, lang, connected)
         /\ detached' = IF WillEnd(StopRecognition(rec))
                        THEN det (+) SetToBag({StopRecognition(rec)})
                        ELSE det

\* the objects after a handler that changed none of the effect's
\* dependencies
KeepOrRerun(rec, det, live, auto, lang) ==
    IF <<live, auto, lang>> # <<isLiveTranscribing, autoSpeak, language>>
    THEN RunSetupEffect(rec, det, live, auto, lang, backendConnected)
    ELSE /\ recognition' = rec
         /\ detached' = det

\* SpeechRecognition.start() throws on an object that has not ended
CanStart(r) == r.status = "idle"

\* the objects that exist: recognitionRef.current (isRef) and the detached
\* ones, which are told apart by what they hold only
Objects ==
    {<<TRUE, recognition>>} \cup {<<FALSE, r>> : r \in BagToSet(detached)}
Obj(o) == o[2]

\* the objects with object o replaced by r, or dropped when it has ended
\* and nothing references it
RecWith(o, r) == IF o[1] THEN r ELSE recognition
DetWith(o, r) ==
    IF o[1] THEN detached
    ELSE IF r.status = "idle" THEN detached (-) SetToBag({o[2]})
    ELSE (detached (-) SetToBag({o[2]})) (+) SetToBag({r})

RefObject == <<TRUE, recognition>>

LiveSnapshot(op) ==
    lastLive' = [op |-> op, committed |-> liveSessionText]

\* startLiveTranscription, offered while no session is live
StartLiveTranscription ==
    /\ ~isLiveTranscribing
    /\ BagCardinality(detached) < MaxDetached
    /\ IF recognition.status = "none" \/ ~CanStart(recognition)
       THEN UNCHANGED <<liveVars, uiVars, ttsVars, histVars, recVars>>
       ELSE /\ isLiveTranscribing' = TRUE
            /\ transcribedText' = <<>>
            /\ interimTranscript' = <<>>
            /\ liveSessionText' = <<>>
            /\ RunSetupEffect([recognition EXCEPT !.status = "started"], detached,
                              TRUE, autoSpeak, language, backendConnected)
            /\ evLog' = <<>>
            /\ sessionError' = FALSE
            /\ LiveSnapshot("start")
            /\ UNCHANGED <<uiVars, ttsVars, histVars, recVars>>
    /\ UNCHANGED pageVars
    /\ UNCHANGED auxVars

\* stopLiveTranscription as a step on the objects and the flag
StopLive(rec, det) ==
    IF rec.status = "none"
    THEN /\ recognition' = rec
         /\ detached' = det
         /\ UNCHANGED isLiveTranscribing
    ELSE /\ isLiveTranscribing' = FALSE
         /\ KeepOrRerun(StopRecognition(rec), det, FALSE, autoSpeak, language)

\* stopLiveTranscription, offered while a session is live
StopLiveTranscription ==
    /\ isLiveTranscribing
    /\ StopLive(recognition, detached)
    /\ LiveSnapshot("stop")
    /\ UNCHANGED <<interimTranscript, liveSessionText, transcribedText, evLog,
                   sessionError, uiVars, ttsVars, histVars, recVars>>
    /\ UNCHANGED pageVars
    /\ UNCHANGED auxVars

\* whether onend starts recognitionRef.current again, without condition
ShouldRestart_always(r) == TRUE

\* whether onend starts recognitionRef.current again: the isLiveTranscribing
\* its closure holds
ShouldRestart(r) == r.live

\* whether onresult hands the new text to handleTextToSpeech
ShouldSpeak(r, newText) == newText # <<>> /\ r.live /\ r.autoSpeak

\* recognition.onresult of object o
OnResult(o, ev) ==
    LET r == Obj(o)
        m == MergeResult(ev, interimTranscript, liveSessionText, transcribedText)
    IN
    /\ CanDeliver(r)
    /\ Len(evLog) < MaxEvents
    /\ interimTranscript' = m.interim
    /\ liveSessionText' = m.committed
    /\ transcribedText' = m.transcribed
    /\ IF ShouldSpeak(r, m.newText)
       THEN HandleTextToSpeechBegin(m.newText, <<>>, r.connected, language)
       ELSE UNCHANGED <<ttsOps, isLoading, isPlaying, alerts>>
    /\ evLog' = Append(evLog, ev)
    /\ LiveSnapshot("result")
    /\ UNCHANGED <<isLiveTranscribing, recognition, detached, sessionError, language,
                   autoSpeak, backendConnected, text, audioFile, healthPending, histVars, recVars>>
    /\ UNCHANGED <<page, uploads, vpVars>>
    /\ UNCHANGED auxVars

\* setIsLiveTranscribing(false) of onerror
AfterError(live) == FALSE

\* recognition.onerror of object o; the stream ends after an error
OnError(o) ==
    LET r == Obj(o)
        failed == [r EXCEPT !.status = "failed"]
    IN
    /\ CanDeliver(r)
    /\ isLiveTranscribing' = AfterError(isLiveTranscribing)
    /\ KeepOrRerun(RecWith(o, failed), DetWith(o, failed),
                   AfterError(isLiveTranscribing), autoSpeak, language)
    /\ sessionError' = TRUE
    /\ LiveSnapshot("error")
    /\ UNCHANGED <<interimTranscript, liveSessionText, transcribedText, evLog,
                   uiVars, ttsVars, histVars, recVars>>
    /\ UNCHANGED pageVars
    /\ UNCHANGED auxVars

\* recognition.onend of object o
OnEnd(o) ==
    LET r == Obj(o)
        ended == [r EXCEPT !.status = "idle"]
        rec == RecWith(o, ended)
    IN
    /\ WillEnd(r)
    /\ recognition' = IF ShouldRestart(r) /\ CanStart(rec)
                      THEN [rec EXCEPT !.status = "started"]
                      ELSE rec
    /\ detached' = DetWith(o, ended)
    /\ LiveSnapshot("end")
    /\ UNCHANGED <<isLiveTranscribing, interimTranscript, liveSessionText,
                   transcribedText, evLog, sessionError, uiVars, ttsVars, histVars, recVars>>
    /\ UNCHANGED pageVars
    /\ UNCHANGED auxVars

\* the language select of the settings panel
SetLanguage(l) ==
    /\ l # language
    /\ BagCardinality(detached) < MaxDetached
    /\ language' = l
    /\ KeepOrRerun(recognition, detached, isLiveTranscribing, autoSpeak, l)
    /\ LiveSnapshot("language")
    /\ UNCHANGED <<isLiveTranscribing, interimTranscript, liveSessionText,
                   transcribedText, evLog, sessionError, autoSpeak, backendConnected,
                   text, isLoading, isPlaying, audioFile, healthPending, ttsVars, histVars, recVars>>
    /\ UNCHANGED pageVars
    /\ UNCHANGED auxVars

\* the auto-speak checkbox of the settings panel
SetAutoSpeak(b) ==
    /\ b # autoSpeak
    /\ BagCardinality(detached) < MaxDetached
    /\ autoSpeak' = b
    /\ KeepOrRerun(recognition, detached, isLiveTranscribing, b, language)
    /\ LiveSnapshot("autoSpeak")
    /\ UNCHANGED <<isLiveTranscribing, interimTranscript, liveSessionText,
                   transcribedText, evLog, sessionError, language, backendConnected,
                   text, isLoading, isPlaying, audioFile, healthPending, ttsVars, histVars, recVars>>
    /\ UNCHANGED pageVars
    /\ UNCHANGED auxVars

\* clearAll
ClearAll ==
    /\ text' = <<>>
    /\ transcribedText' = <<>>
    /\ audioFile' = NoFile
    /\ isPlaying' = FALSE
    /\ interimTranscript' = <<>>
    /\ liveSessionText' = <<>>
    /\ IF isLiveTranscribing
       THEN StopLive(recognition, detached)
       ELSE UNCHANGED <<isLiveTranscribing, recognition, detached>>
    /\ evLog' = <<>>
    /\ LiveSnapshot("clearAll")
    /\ UNCHANGED <<sessionError, language, autoSpeak, backendConnected, isLoading,
                   healthPending, ttsVars, histVars, recVars>>
    /\ UNCHANGED pageVars
    /\ UNCHANGED auxVars

\* testBackendConnection of the mount effect settles
HealthCheckDone(ok) ==
    /\ healthPending
    /\ healthPending' = FALSE
    /\ backendConnected' = ok
    /\ UNCHANGED <<language, autoSpeak, text, isLoading, isPlaying, audioFile,
                   liveVars, ttsVars, histVars, recVars>>
    /\ UNCHANGED pageVars
    /\ UNCHANGED auxVars

\* ----------------------------------------------------------- recording
\* sampleTexts of simulateBrowserTranscription
SampleTexts ==
    { <<"This is a sample transcription of your audio recording.">>,
      <<"Your speech has been successfully converted to text.">>,
      <<"The audio processing is complete and here is your transcribed text.">>,
      <<"Speech recognition completed. This is the transcribed content.">> }

\* result.text || result.transcription || '' of a 2xx response
RemoteTexts == { <<"remote", " ", "transcript">>, <<" ">>, <<>> }

\* the accuracy saved with a placeholder, raised to that of a remote result
FallbackAccuracy_asRemote == AccuracyWhisper

\* let accuracy = 0.85, kept unless the remote transcription succeeded
FallbackAccuracy == AccuracyFallback

\* a startRecording call: the closures of ondataavailable, onstop and of
\* the timer hold the isRecording, backendConnected and language of the
\* render in which the button was clicked
NewRecorder ==
    [phase |-> "asking", timer |-> "none", streamOpen |-> FALSE,
     cIsRecording |-> isRecording, cConnected |-> backendConnected,
     cLang |-> language, path |-> "none", blob |-> <<>>, yielded |-> FALSE]

Recording(r) == recorders[r].phase = "recording"

\* startRecording up to await getUserMedia; the toggle offers it while
\* isRecording is false
StartRecording ==
    /\ ~isRecording
    /\ recorders' = Append(recorders, NewRecorder)
    /\ UNCHANGED <<isRecording, mediaRecorderRef, audioChunksRef,
                   histVars, uiVars, liveVars, ttsVars>>
    /\ UNCHANGED pageVars
    /\ UNCHANGED auxVars

\* getUserMedia resolves: the recorder is created and started, the shared
\* chunk list is reset, the 30 s timer is set
GetUserMediaGranted(r) ==
    /\ recorders[r].phase = "asking"
    /\ recorders' = [recorders EXCEPT ![r].phase = "recording",
                                      ![r].timer = "armed",
                                      ![r].streamOpen = TRUE]
    /\ mediaRecorderRef' = r
    /\ audioChunksRef' = <<>>
    /\ isRecording' = TRUE
    /\ UNCHANGED <<histVars, uiVars, liveVars, ttsVars>>
    /\ UNCHANGED pageVars
    /\ UNCHANGED auxVars

\* getUserMedia rejects: the alert, nothing else
GetUserMediaDenied(r) ==
    /\ recorders[r].phase = "asking"
    /\ recorders' = [recorders EXCEPT ![r].phase = "denied"]
    /\ UNCHANGED <<isRecording, mediaRecorderRef, audioChunksRef,
                   histVars, uiVars, liveVars, ttsVars>>
    /\ UNCHANGED pageVars
    /\ UNCHANGED auxVars

\* ondataavailable with data of size > 0 (an empty one changes nothing)
DataAvailable(r) ==
    /\ Recording(r)
    /\ Len(audioChunksRef) < MaxChunks
    /\ audioChunksRef' = Append(audioChunksRef, r)
    /\ UNCHANGED <<isRecording, mediaRecorderRef, recorders,
                   histVars, uiVars, liveVars, ttsVars>>
    /\ UNCHANGED pageVars
    /\ UNCHANGED auxVars

\* stopRecording as seen by a closure that holds cIsRecording: the
\* recorder in mediaRecorderRef is stopped and the flag cleared
StopRecordingBody(cIsRecording, recordersIn) ==
    IF mediaRecorderRef # 0 /\ cIsRecording /\ Recording(mediaRecorderRef)
    THEN /\ recorders' = [recordersIn EXCEPT ![mediaRecorderRef].phase = "stopping"]
         /\ isRecording' = FALSE
    ELSE /\ recorders' = recordersIn
         /\ UNCHANGED isRecording

\* stopRecording, offered by the toggle while isRecording is true
StopRecording ==
    /\ isRecording
    /\ StopRecordingBody(isRecording, recorders)
    /\ UNCHANGED <<mediaRecorderRef, audioChunksRef, histVars, uiVars, liveVars, ttsVars>>
    /\ UNCHANGED pageVars
    /\ UNCHANGED auxVars

\* the callback of setTimeout(.., 30000): if (isRecording) stopRecording(),
\* both from the render of the click
AutoStopTimer(r) ==
    /\ recorders[r].timer = "armed"
    /\ IF recorders[r].cIsRecording
       THEN StopRecordingBody(recorders[r].cIsRecording,
                              [recorders EXCEPT ![r].timer = "fired"])
       ELSE /\ recorders' = [recorders EXCEPT ![r].timer = "fired"]
            /\ UNCHANGED isRecording
    /\ UNCHANGED <<mediaRecorderRef, audioChunksRef>>
    /\ UNCHANGED <<histVars, uiVars, liveVars, ttsVars>>
    /\ UNCHANGED pageVars
    /\ UNCHANGED auxVars

\* the task queued by MediaRecorder.stop(): the last dataavailable (with or
\* without data), then onstop up to its first await
StopTask(r, lastData) ==
    LET chunks == IF lastData THEN Append(audioChunksRef, r) ELSE audioChunksRef IN
    /\ recorders[r].phase = "stopping"
    /\ audioChunksRef' = chunks
    /\ IF Len(chunks) > 0
       THEN /\ isLoading' = TRUE
            /\ recorders' =
                 IF recorders[r].cConnected
                 THEN [recorders EXCEPT ![r].phase = "transcribing", ![r].blob = chunks,
                                        ![r].path = "whisper"]
                 ELSE [recorders EXCEPT ![r].phase = "simulating", ![r].path = "offline"]
       ELSE /\ recorders' = [recorders EXCEPT ![r].phase = "done", ![r].streamOpen = FALSE]
            /\ UNCHANGED isLoading
    /\ UNCHANGED <<isRecording, mediaRecorderRef, histVars, language, autoSpeak,
                   backendConnected, text, isPlaying, audioFile, healthPending,
                   liveSessionText, interimTranscript, isLiveTranscribing, recognition,
                   detached, evLog, lastLive, sessionError, transcribedText, ttsVars>>
    /\ UNCHANGED pageVars
    /\ UNCHANGED auxVars

\* the end of onstop: the transcript shown, the history entry saved and
\* reloaded, the loading flag cleared, the microphone released
FinishRecording(r, transcription, accuracy) ==
    /\ transcribedText' = transcription
    /\ \E id \in generateUniqueId("stt") :
          saveSTTHistory(id, transcription, accuracy, recorders[r].cLang, RecordingDuration)
    /\ sttHistory' = sttStore'
    /\ ttsHistory' = ttsStore
    /\ isLoading' = FALSE
    /\ recorders' = [recorders EXCEPT ![r].phase = "done", ![r].streamOpen = FALSE,
                                      ![r].yielded = TRUE]
    /\ Snapshot("recording")
    /\ UNCHANGED <<ttsStore, hasRandomUUID, onlyAppends, isRecording, mediaRecorderRef,
                   audioChunksRef, language, autoSpeak, backendConnected, text, isPlaying,
                   audioFile, healthPending, liveSessionText, interimTranscript,
                   isLiveTranscribing, recognition, detached, evLog, lastLive,
                   sessionError, ttsVars>>
    /\ UNCHANGED pageVars
    /\ UNCHANGED auxVars

\* POST /api/speech-to-text answers 2xx
TranscribeOk(r, remoteText) ==
    /\ recorders[r].phase = "transcribing"
    /\ FinishRecording(r, remoteText, AccuracyWhisper)


\* the request fails or answers non-2xx: Whisper failed, the placeholder
\* is awaited
TranscribeFail(r) ==
    /\ recorders[r].phase = "transcribing"
    /\ recorders' = [recorders EXCEPT ![r].phase = "simulating", ![r].path = "whisperFailed"]
    /\ UNCHANGED <<isRecording, mediaRecorderRef, audioChunksRef,
                   histVars, uiVars, liveVars, ttsVars>>
    /\ UNCHANGED pageVars
    /\ UNCHANGED auxVars

\* simulateBrowserTranscription resolves after its 2 s
SimulateDone(r, sample) ==
    /\ recorders[r].phase = "simulating"
    /\ FinishRecording(r, sample, FallbackAccuracy)


\* fallbackText of the catch of onstop
FallbackText ==
    <<"This is a sample transcription. Your audio has been processed successfully.">>

\* the end of onstop when saveSTTHistory throws (localStorage.getItem,
\* JSON.parse or localStorage.setItem fails) after setTranscribedText: the
\* catch shows fallbackText and saves again; when that save throws too the
\* finally clears the loading flag and the exception leaves the handler
\* before stream.getTracks().forEach(track => track.stop()).  The
\* identifier made for an entry that is not written is dropped.
StorageFailsAtSave(r, transcription, retryFails) ==
    /\ \/ recorders[r].phase = "transcribing" /\ transcription \in RemoteTexts
       \/ recorders[r].phase = "simulating" /\ transcription \in SampleTexts
    /\ transcribedText' = FallbackText
    /\ isLoading' = FALSE
    /\ IF retryFails
       THEN /\ recorders' = [recorders EXCEPT ![r].phase = "done"]
            /\ UNCHANGED <<sttStore, sttHistory, ttsHistory, appended, nextId, lastId>>
       ELSE /\ \E id \in generateUniqueId("stt") :
                  saveSTTHistory(id, FallbackText, AccuracyFallback, recorders[r].cLang,
                                 RecordingDuration)
            /\ sttHistory' = sttStore'
            /\ ttsHistory' = ttsStore
            /\ recorders' = [recorders EXCEPT ![r].phase = "done",
                                              ![r].streamOpen = FALSE,
                                              ![r].yielded = TRUE]
    /\ Snapshot("storageFailed")
    /\ UNCHANGED <<ttsStore, hasRandomUUID, onlyAppends, isRecording, mediaRecorderRef,
                   audioChunksRef, language, autoSpeak, backendConnected, text, isPlaying,
                   audioFile, healthPending, liveSessionText, interimTranscript,
                   isLiveTranscribing, recognition, detached, evLog, lastLive,
                   sessionError, ttsVars>>
    /\ UNCHANGED pageVars
    /\ UNCHANGED auxVars

\* ------------------------------------------------------- file upload
\* allowedTypes of handleAudioUpload
AllowedTypes ==
    {"audio/mpeg", "audio/wav", "audio/webm", "audio/ogg", "audio/x-m4a", "audio/mp4"}

\* /\.(mp3|wav|webm|ogg|m4a|mp4)$/i, on the lower-cased extension of the name
AudioExtensions == {"mp3", "wav", "webm", "ogg", "m4a", "mp4"}

\* the files offered to the input: at the size limit and just above it,
\* with an audio or another MIME type, with an audio or another extension
Files ==
    [size : {UploadLimit, UploadLimit + 1}, type : {"audio/wav", "text/plain"},
     ext : {"wav", "txt"}]

\* a size check that lets every file through
SizeRejected_never(file) == FALSE

\* file.size > 100 * 1024 * 1024
SizeRejected(file) == file.size > UploadLimit

\* !allowedTypes.includes(file.type) && !file.name.match(..)
TypeRejected(file) == file.type \notin AllowedTypes /\ file.ext \notin AudioExtensions

\* result.text || result.transcription || "Transcription completed successfully."
DefaultUploadText == <<"Transcription completed successfully.">>

\* handleAudioUpload up to its first await
HandleAudioUpload(file) ==
    /\ page = "speechlab"
    /\ \/ Len(uploads) < MaxUploads
       \/ file = NoFile \/ SizeRejected(file) \/ TypeRejected(file)
    /\ IF file = NoFile
       THEN UNCHANGED <<alerts, audioFile, isLoading, uploads>>
       ELSE IF SizeRejected(file)
       THEN /\ alerts' = alerts \cup
                  {"File too large. Please select a file smaller than 100MB."}
            /\ UNCHANGED <<audioFile, isLoading, uploads>>
       ELSE IF TypeRejected(file)
       THEN /\ alerts' = alerts \cup {"Please select a valid audio file"}
            /\ UNCHANGED <<audioFile, isLoading, uploads>>
       ELSE /\ audioFile' = file
            /\ isLoading' = TRUE
            /\ uploads' = Append(uploads,
                  [phase |-> IF backendConnected THEN "transcribing" ELSE "simulating",
                   cLang |-> language])
            /\ UNCHANGED alerts
    /\ UNCHANGED <<histVars, language, autoSpeak, backendConnected, text, isPlaying,
                   healthPending, liveVars, ttsVars, recVars, page, vpVars>>
    /\ UNCHANGED auxVars

Ups == 1..Len(uploads)

\* the end of handleAudioUpload: the transcript shown, the history entry
\* saved and reloaded, the loading flag cleared
FinishUpload(u, transcription, accuracy) ==
    /\ transcribedText' = transcription
    /\ \E id \in generateUniqueId("stt") :
          saveSTTHistory(id, transcription, accuracy, uploads[u].cLang, UploadDuration)
    /\ sttHistory' = sttStore'
    /\ ttsHistory' = ttsStore
    /\ isLoading' = FALSE
    /\ uploads' = [uploads EXCEPT ![u].phase = "done"]
    /\ Snapshot("upload")
    /\ UNCHANGED <<ttsStore, hasRandomUUID, onlyAppends, language, autoSpeak,
                   backendConnected, text, isPlaying, audioFile, healthPending,
                   liveSessionText, interimTranscript, isLiveTranscribing, recognition,
                   detached, evLog, lastLive, sessionError, ttsVars, recVars,
                   page, alerts, vpVars>>
    /\ UNCHANGED auxVars

\* POST /api/speech-to-text of the upload answers 2xx
UploadOk(u, remoteText) ==
    /\ uploads[u].phase = "transcribing"
    /\ FinishUpload(u, IF remoteText # <<>> THEN remoteText ELSE DefaultUploadText,
                    AccuracyWhisper)

\* the request fails or answers non-2xx: the placeholder is awaited
UploadFail(u) ==
    /\ uploads[u].phase = "transcribing"
    /\ uploads' = [uploads EXCEPT ![u].phase = "simulating"]
    /\ UNCHANGED <<histVars, uiVars, liveVars, ttsVars, recVars, page, alerts, vpVars>>
    /\ UNCHANGED auxVars

\* simulateBrowserTranscription of the upload resolves
UploadSimulateDone(u, sample) ==
    /\ uploads[u].phase = "simulating"
    /\ FinishUpload(u, sample, AccuracyUpload)

\* ------------------------------------------- text to speech, continued
\* the "Speak This" button under the transcript, shown while
\* !isLoading && transcribedText and enabled while !isPlaying
SpeakTranscript ==
    /\ page = "speechlab"
    /\ ~isLoading /\ transcribedText # <<>> /\ ~isPlaying
    /\ Len(ttsOps) < MaxSpeaks \/ TextRejected(transcribedText)
    /\ HandleTextToSpeechBegin(transcribedText, text, backendConnected, language)
    /\ UNCHANGED <<histVars, language, autoSpeak, backendConnected, text, audioFile,
                   healthPending, liveVars, recVars, page, uploads, vpVars>>
    /\ UNCHANGED auxVars

Speaks == 1..Len(ttsOps)

\* handleTextToSpeech after its await: the entry saved, the history
\* reloaded, the loading flag cleared
FinishTextToSpeech(i) ==
    /\ \E id \in generateUniqueId("tts") :
          saveTTSHistory(id, ttsOps[i].text, "21m00Tcm4TlvDq8ikWAM", ttsOps[i].lang, Len(ttsOps[i].text))
    /\ ttsHistory' = ttsStore'
    /\ sttHistory' = sttStore
    /\ isLoading' = FALSE
    /\ Snapshot("speak")
    /\ UNCHANGED <<sttStore, hasRandomUUID, onlyAppends, language, autoSpeak,
                   backendConnected, text, audioFile, healthPending, liveVars, recVars,
                   pageVars>>
    /\ UNCHANGED auxVars

\* POST /api/text-to-speech answers 2xx and the audio starts playing
TTSFetchOk(i) ==
    /\ ttsOps[i].pc = "fetch"
    /\ ttsOps' = [ttsOps EXCEPT ![i].pc = "playing", ![i].url = "live"]
    /\ isPlaying' = TRUE
    /\ FinishTextToSpeech(i)

\* the request fails, answers non-2xx, or audio.play() rejects (the object
\* URL then exists already): realTextToSpeech speaks the text instead
TTSFetchFail(i, playFailed) ==
    /\ ttsOps[i].pc = "fetch"
    /\ ttsOps' = [CancelUtterances(ttsOps) EXCEPT
                    ![i] = Speak([ttsOps[i] EXCEPT
                                    !.url = IF playFailed THEN "live" ELSE "none"])]
    /\ isPlaying' = TRUE
    /\ UNCHANGED <<histVars, language, autoSpeak, backendConnected, text, isLoading,
                   audioFile, healthPending, liveVars, recVars, pageVars>>
    /\ UNCHANGED auxVars

\* utterance.onend (a cancelled utterance ends or fails, by browser)
UtteranceEnd(i) ==
    /\ ttsOps[i].pc \in {"speaking", "cancelled"}
    /\ ttsOps' = [ttsOps EXCEPT ![i].pc = "done"]
    /\ isPlaying' = FALSE
    /\ FinishTextToSpeech(i)

\* utterance.onerror: the promise rejects, handleTextToSpeech reports it
UtteranceError(i) ==
    /\ ttsOps[i].pc \in {"speaking", "cancelled"}
    /\ ttsOps' = [ttsOps EXCEPT ![i].pc = "failed"]
    /\ isLoading' = FALSE
    /\ UNCHANGED <<histVars, language, autoSpeak, backendConnected, text, isPlaying,
                   audioFile, healthPending, liveVars, recVars, pageVars>>
    /\ UNCHANGED auxVars

\* an onended that keeps the object URL
UrlAfterEnded_kept(url) == url

\* URL.revokeObjectURL(audioUrl)
UrlAfterEnded(url) == "revoked"

\* audio.onended of a backend synthesis
AudioEnded(i) ==
    /\ ttsOps[i].pc = "playing"
    /\ ttsOps' = [ttsOps EXCEPT ![i].pc = "done", ![i].url = UrlAfterEnded(@)]
    /\ isPlaying' = FALSE
    /\ UNCHANGED <<histVars, language, autoSpeak, backendConnected, text, isLoading,
                   audioFile, healthPending, liveVars, recVars, pageVars>>
    /\ UNCHANGED auxVars

\* ------------------------------------------------- the synthesis panel
SpeakTexts == {<<"good", " ", "day">>, <<" ">>}

\* the slider offers 0.5 to 2 in steps of 0.1; in tenths
PlaybackSpeeds == {PlaybackSpeedDefault, 15}

\* onChange of the text area of the synthesis panel
SetText(t) ==
    /\ page = "speechlab"
    /\ t # text
    /\ text' = t
    /\ UNCHANGED <<histVars, language, autoSpeak, backendConnected, isLoading, isPlaying,
                   audioFile, healthPending, liveVars, ttsVars, recVars, pageVars, auxVars>>

\* onChange of the playback speed slider; the recognition setup effect
\* does not depend on it
SetPlaybackSpeed(v) ==
    /\ page = "speechlab"
    /\ v # playbackSpeed
    /\ playbackSpeed' = v
    /\ UNCHANGED <<histVars, uiVars, liveVars, ttsVars, recVars, pageVars, wavVars, history,
                   outVars>>

\* the Speak button of the synthesis panel, disabled while
\* isLoading || !text.trim(): handleTextToSpeech() up to its first await
SpeakText ==
    /\ page = "speechlab"
    /\ ~isLoading /\ Trim(text) # <<>>
    /\ HandleTextToSpeechBegin(<<>>, text, backendConnected, language)
    /\ UNCHANGED <<histVars, language, autoSpeak, backendConnected, text, audioFile,
                   healthPending, liveVars, recVars, page, uploads, vpVars, auxVars>>

\* stopSpeech, offered while isPlaying: the utterances are cancelled; the
\* audio elements of the document are paused, to which the clips made with
\* new Audio() do not belong
StopSpeech ==
    /\ page = "speechlab"
    /\ isPlaying
    /\ ttsOps' = CancelUtterances(ttsOps)
    /\ isPlaying' = FALSE
    /\ UNCHANGED <<histVars, language, autoSpeak, backendConnected, text, isLoading,
                   audioFile, healthPending, liveVars, recVars, pageVars, auxVars>>

\* ------------------------------------------------------------ encodeWAV
\* an AudioBuffer: its sampleRate and, per channel, the samples of
\* getChannelData(channel), in thousandths (One is the sample 1.0)
One == 1000

numChannels(ab) == Len(ab.channels)
FrameCount(ab) == Len(ab.channels[1])

bitDepth == 16
bytesPerSample == bitDepth \div 8
blockAlign(ab) == numChannels(ab) * bytesPerSample
byteRate(ab) == ab.sampleRate * blockAlign(ab)
dataSize(ab) == FrameCount(ab) * blockAlign(ab)

\* the DataView setters on a buffer of bytes; byte offset k is element
\* k + 1; the multi-byte ones are called with littleEndian = true
setUint8(buf, offset, v) == [buf EXCEPT ![offset + 1] = v % 256]

setUint16(buf, offset, v) ==
    LET w == v % 65536 IN
    setUint8(setUint8(buf, offset, w % 256), offset + 1, w \div 256)

\* a setUint32 that writes the most significant byte first
setUint32_bigEndian(buf, offset, v) ==
    setUint8(setUint8(setUint8(setUint8(buf,
        offset + 3, v % 256),
        offset + 2, (v \div 256) % 256),
        offset + 1, (v \div 65536) % 256),
        offset, v \div 16777216)

\* setUint32 of a value in 0 .. 2^31 - 1, where the conversion modulo 2^32
\* changes nothing
setUint32(buf, offset, v) ==
    setUint8(setUint8(setUint8(setUint8(buf,
        offset, v % 256),
        offset + 1, (v \div 256) % 256),
        offset + 2, (v \div 65536) % 256),
        offset + 3, v \div 16777216)

\* setInt16 of an integer: modulo 2^16, two's complement
setInt16(buf, offset, v) == setUint16(buf, offset, v % 65536)

\* String.prototype.charCodeAt for the characters of the tags
charCodeAt(c) ==
    CASE c = "R" -> 82 [] c = "I" -> 73 [] c = "F" -> 70
      [] c = "W" -> 87 [] c = "A" -> 65 [] c = "V" -> 86 [] c = "E" -> 69
      [] c = "f" -> 102 [] c = "m" -> 109 [] c = "t" -> 116 [] c = " " -> 32
      [] c = "d" -> 100 [] c = "a" -> 97

\* writeString(offset, string), the string as its characters
RECURSIVE writeString(_, _, _)
writeString(buf, offset, string) ==
    IF string = <<>> THEN buf
    ELSE writeString(setUint8(buf, offset, charCodeAt(Head(string))),
                     offset + 1, Tail(string))

\* a conversion without the clamp
Clamp_none(x) == x

\* Math.max(-1, Math.min(1, x))
Clamp(x) == IF x > One THEN One ELSE IF x < -One THEN -One ELSE x

\* the integer part of a / b, b > 0, as the conversion to an integer of
\* setInt16 takes it: towards zero
TruncDiv(a, b) == IF a >= 0 THEN a \div b ELSE -((-a) \div b)

\* sample < 0 ? sample * 0x8000 : sample * 0x7FFF, as setInt16 truncates it
Scaled(sample) ==
    IF sample < 0 THEN TruncDiv(sample * NegativeScale, One)
    ELSE TruncDiv(sample * PositiveScale, One)

\* the loop over frames and channels from its iteration idx on: frame
\* idx \div numChannels, channel idx % numChannels, offset 44 + 2 * idx
RECURSIVE WriteSamples(_, _, _)
WriteSamples(buf, ab, idx) ==
    IF idx >= FrameCount(ab) * numChannels(ab) THEN buf
    ELSE LET i == idx \div numChannels(ab)
             channel == idx % numChannels(ab)
             offset == HeaderSize + idx * 2
             sample == Clamp(ab.channels[channel + 1][i + 1])
         IN  WriteSamples(setInt16(buf, offset, Scaled(sample)), ab, idx + 1)

WriteHeader(buf, ab) ==
    LET b1 == writeString(buf, 0, <<"R", "I", "F", "F">>)
        b2 == setUint32(b1, 4, 36 + dataSize(ab))
        b3 == writeString(b2, 8, <<"W", "A", "V", "E">>)
        b4 == writeString(b3, 12, <<"f", "m", "t", " ">>)
        b5 == setUint32(b4, 16, 16)
        b6 == setUint16(b5, 20, 1)
        b7 == setUint16(b6, 22, numChannels(ab))
        b8 == setUint32(b7, 24, ab.sampleRate)
        b9 == setUint32(b8, 28, byteRate(ab))
        b10 == setUint16(b9, 32, blockAlign(ab))
        b11 == setUint16(b10, 34, bitDepth)
        b12 == writeString(b11, 36, <<"d", "a", "t", "a">>)
    IN  setUint32(b12, 40, dataSize(ab))

\* encodeWAV(audioBuffer): new ArrayBuffer(44 + dataSize), zero filled,
\* then the header, then the samples
encodeWAV(ab) ==
    WriteSamples(WriteHeader([k \in 1..(HeaderSize + dataSize(ab)) |-> 0], ab), ab, 0)

\* convertToWav from decodeAudioData on: the decoded audio is encoded
ConvertToWav ==
    /\ wavBuffer = <<>>
    /\ wavBuffer' = encodeWAV(audioBuffer)
    /\ UNCHANGED <<histVars, uiVars, liveVars, ttsVars, recVars, pageVars,
                   playbackSpeed, audioBuffer, whisper, history,
                   outVars>>

\* ------------------------------------------------- transcribeWithWhisper
Blob(type, data) == [type |-> type, data |-> data]
NoBlob == Blob("", <<>>)

NoAudioBuffer == [sampleRate |-> 8000, channels |-> << <<>> >>]

NoWhisper ==
    [pc |-> "idle", audioBlob |-> NoBlob, decoded |-> FALSE, wavBlob |-> NoBlob,
     response |-> "none"]

\* a conversion that lets its failure out
convertToWav_rethrow(audioBlob, decoding) ==
    IF audioBlob.type = "audio/wav"
    THEN [rejected |-> FALSE, blob |-> audioBlob]
    ELSE IF decoding.ok
    THEN [rejected |-> FALSE, blob |-> Blob("audio/wav", encodeWAV(decoding.buffer))]
    ELSE [rejected |-> TRUE, blob |-> NoBlob]

\* convertToWav: the promise it returns, rejected or resolved with a blob;
\* decoding is what new AudioContext, arrayBuffer, decodeAudioData and
\* encodeWAV make of the blob: an AudioBuffer, or an exception
convertToWav(audioBlob, decoding) ==
    IF audioBlob.type = "audio/wav"
    THEN [rejected |-> FALSE, blob |-> audioBlob]
    ELSE IF decoding.ok
    THEN [rejected |-> FALSE, blob |-> Blob("audio/wav", encodeWAV(decoding.buffer))]
    ELSE [rejected |-> FALSE, blob |-> audioBlob]

\* transcribeWithWhisper(audioBlob) up to await convertToWav
WhisperStart(audioBlob) ==
    /\ whisper.pc = "idle"
    /\ whisper' = [whisper EXCEPT !.pc = "converting", !.audioBlob = audioBlob]
    /\ UNCHANGED <<histVars, uiVars, liveVars, ttsVars, recVars, pageVars,
                   playbackSpeed, audioBuffer, wavBuffer, history,
                   outVars>>

\* convertToWav settles: the blob goes into the form and the request is
\* sent, or the rejection leaves transcribeWithWhisper through its catch
WhisperConverted(decoding) ==
    LET c == convertToWav(whisper.audioBlob, decoding) IN
    /\ whisper.pc = "converting"
    /\ whisper' = IF c.rejected
                  THEN [whisper EXCEPT !.pc = "rejected", !.decoded = decoding.ok]
                  ELSE [whisper EXCEPT !.pc = "fetching", !.decoded = decoding.ok,
                                       !.wavBlob = c.blob]
    /\ UNCHANGED <<histVars, uiVars, liveVars, ttsVars, recVars, pageVars,
                   playbackSpeed, audioBuffer, wavBuffer, history,
                   outVars>>

\* POST /api/speech-to-text settles: a 2xx answer resolves the call, a
\* network error or another status rejects it
WhisperAnswered(ok) ==
    /\ whisper.pc = "fetching"
    /\ whisper' = [whisper EXCEPT !.pc = IF ok THEN "resolved" ELSE "rejected",
                                  !.response = IF ok THEN "ok" ELSE "failed"]
    /\ UNCHANGED <<histVars, uiVars, liveVars, ttsVars, recVars, pageVars,
                   playbackSpeed, audioBuffer, wavBuffer, history,
                   outVars>>

\* --------------------------------------------------------- History page
\* an identifier as the text it is: one token
IdString(id) == <<id>>

\* fetchHistoryData: {...item, id: `stt-${item.id}`, type, service}
HistoryEntry(kind, item) ==
    [f \in DOMAIN item \cup {"id", "type", "service"} |->
        CASE f = "id" -> <<kind \o "-">> \o IdString(item.id)
          [] f = "type" -> kind
          [] f = "service" -> "speech-lab"
          [] OTHER -> item[f]]

\* combinedHistory of fetchHistoryData
CombinedHistory(stt, tts) ==
    [i \in 1..Len(stt) |-> HistoryEntry("stt", stt[i])]
        \o [i \in 1..Len(tts) |-> HistoryEntry("tts", tts[i])]

\* item.favorite as a condition: undefined counts as false
Favorite(item) == "favorite" \in DOMAIN item /\ item.favorite

\* {...item, favorite: !item.favorite}
FlipFavorite(item) ==
    [f \in DOMAIN item \cup {"favorite"} |->
        IF f = "favorite" THEN ~Favorite(item) ELSE item[f]]

\* the route changes from /speech-lab to /history while nothing of
\* SpeechLab is in flight: SpeechLab unmounts, History mounts and its
\* effect runs fetchHistoryData
NavigateToHistory ==
    /\ page = "speechlab"
    /\ \A u \in Ups : uploads[u].phase = "done"
    /\ \A i \in Speaks : ttsOps[i].pc \in {"done", "failed"}
    /\ \A r \in 1..Len(recorders) : recorders[r].phase \in {"done", "denied"}
    /\ ~isLiveTranscribing
    /\ page' = "history"
    /\ transcribedText' = <<>> /\ audioFile' = NoFile /\ text' = <<>>
    /\ isLoading' = FALSE /\ isPlaying' = FALSE
    /\ backendConnected' = FALSE /\ healthPending' = FALSE
    /\ sttHistory' = <<>> /\ ttsHistory' = <<>>
    /\ uploads' = <<>> /\ ttsOps' = <<>>
    /\ history' = CombinedHistory(sttStore, ttsStore)
    /\ Snapshot("fetch")
    /\ UNCHANGED <<sttStore, ttsStore, hasRandomUUID, nextId, lastId, appended,
                   onlyAppends, language, autoSpeak,
                   isLiveTranscribing, interimTranscript, liveSessionText, recognition,
                   detached, evLog, lastLive, sessionError, recVars, alerts, vpVars,
                   playbackSpeed, wavVars,
                   outVars>>

\* fetchHistoryData from the refresh button
FetchHistoryData ==
    /\ page = "history"
    /\ history' = CombinedHistory(sttStore, ttsStore)
    /\ Snapshot("fetch")
    /\ UNCHANGED <<sttStore, ttsStore, sttHistory, ttsHistory, hasRandomUUID, nextId,
                   lastId, appended, onlyAppends, uiVars, liveVars, ttsVars, recVars,
                   pageVars, playbackSpeed, wavVars,
                   outVars>>

\* toggleFavorite(id), from the star of an entry: the flag flipped in the
\* list of the page, and in the stored collection of the kind for the
\* stored entries whose id equals the id of the entry of the page
ToggleFavorite(id) ==
    /\ page = "history"
    /\ \E i \in 1..Len(history) : history[i].id = id
    /\ history' = [i \in 1..Len(history) |->
                     IF history[i].id = id THEN FlipFavorite(history[i]) ELSE history[i]]
    /\ LET item == history[CHOOSE i \in 1..Len(history) :
                              history[i].id = id /\ \A j \in 1..(i - 1) : history[j].id # id]
           updated(existing) ==
               [j \in 1..Len(existing) |->
                  IF IdString(existing[j].id) = item.id
                  THEN FlipFavorite(existing[j]) ELSE existing[j]]
       IN  /\ sttStore' = IF item.service = "speech-lab" /\ item.type = "stt"
                          THEN updated(sttStore) ELSE sttStore
           /\ ttsStore' = IF item.service = "speech-lab" /\ item.type = "tts"
                          THEN updated(ttsStore) ELSE ttsStore
    /\ onlyAppends' = [stt |-> onlyAppends.stt /\ sttStore' = sttStore,
                       tts |-> onlyAppends.tts /\ ttsStore' = ttsStore]
    /\ Snapshot("toggleFavorite")
    /\ UNCHANGED <<sttHistory, ttsHistory, hasRandomUUID, nextId, lastId, appended,
                   uiVars, liveVars, ttsVars, recVars, pageVars, playbackSpeed, wavVars,
                   outVars>>

\* clearAllHistory: after window.confirm, both collections removed from
\* storage and the list of the page emptied
ClearAllHistory(confirmed) ==
    /\ page = "history"
    /\ IF confirmed
       THEN /\ sttStore' = <<>> /\ ttsStore' = <<>>
            /\ history' = <<>>
            /\ appended' = [stt |-> <<>>, tts |-> <<>>]
            /\ onlyAppends' = [stt |-> TRUE, tts |-> TRUE]
            /\ Snapshot("clearAll")
       ELSE UNCHANGED <<sttStore, ttsStore, history, appended, onlyAppends, lastOp,
                        preStt, preTts>>
    /\ UNCHANGED <<sttHistory, ttsHistory, hasRandomUUID, nextId, lastId,
                   uiVars, liveVars, ttsVars, recVars, pageVars, playbackSpeed, wavVars,
                   outVars>>

\* deleteItems(ids), from the bin of an entry or of the selection: after
\* window.confirm the entries leave the list of the page; for each id the
\* stored collection of the kind is filtered by
\* storedItem.id !== item.id, item being the entry of the page
DeleteItems(ids, confirmed) ==
    /\ page = "history"
    /\ ids # {}
    /\ \A id \in ids : \E i \in 1..Len(history) : history[i].id = id
    /\ IF confirmed
       THEN /\ history' = SelectSeq(history, LAMBDA item : item.id \notin ids)
            /\ LET found(id) ==
                       history[CHOOSE i \in 1..Len(history) :
                          history[i].id = id /\ \A j \in 1..(i - 1) : history[j].id # id]
                    removed(kind) ==
                       {found(id).id : id \in {x \in ids :
                           found(x).service = "speech-lab" /\ found(x).type = kind}}
                    updated(existing, kind) ==
                       SelectSeq(existing,
                                 LAMBDA storedItem : IdString(storedItem.id) \notin removed(kind))
                IN  /\ sttStore' = updated(sttStore, "stt")
                    /\ ttsStore' = updated(ttsStore, "tts")
            /\ onlyAppends' = [stt |-> onlyAppends.stt /\ sttStore' = sttStore,
                               tts |-> onlyAppends.tts /\ ttsStore' = ttsStore]
            /\ Snapshot("deleteItems")
       ELSE UNCHANGED <<sttStore, ttsStore, history, onlyAppends, lastOp, preStt, preTts>>
    /\ UNCHANGED <<sttHistory, ttsHistory, hasRandomUUID, nextId, lastId, appended,
                   uiVars, liveVars, ttsVars, recVars, pageVars, playbackSpeed, wavVars,
                   outVars>>

\* ---------------------------------------------------- VoicePersonalizer
VoiceNames == {<<>>, <<" ">>, <<"Ada">>}

NoOp == [kind |-> "none", name |-> <<>>, count |-> 0]

\* the route changes from /speech-lab to /voice-personalizer while nothing
\* of SpeechLab is in flight: SpeechLab unmounts and its state is dropped,
\* VoicePersonalizer mounts and loads its history
NavigateToVoice ==
    /\ page = "speechlab"
    /\ \A u \in Ups : uploads[u].phase = "done"
    /\ \A i \in Speaks : ttsOps[i].pc \in {"done", "failed"}
    /\ \A r \in 1..Len(recorders) : recorders[r].phase \in {"done", "denied"}
    /\ ~isLiveTranscribing
    /\ page' = "voice"
    /\ transcribedText' = <<>> /\ audioFile' = NoFile /\ text' = <<>>
    /\ isLoading' = FALSE /\ isPlaying' = FALSE
    /\ backendConnected' = FALSE /\ healthPending' = FALSE
    /\ sttHistory' = <<>> /\ ttsHistory' = <<>>
    /\ uploads' = <<>> /\ ttsOps' = <<>>
    /\ vpHistory' = vpStore
    /\ UNCHANGED <<sttStore, ttsStore, hasRandomUUID, nextId, lastId, appended,
                   onlyAppends, lastOp, preStt, preTts, language, autoSpeak,
                   isLiveTranscribing, interimTranscript, liveSessionText, recognition,
                   detached, evLog, lastLive, sessionError, recVars, alerts, samples,
                   voiceName, isProcessing, vpOp, nextSample, vpStore>>
    /\ UNCHANGED auxVars

\* onChange of the profile name input
SetVoiceName(n) ==
    /\ page = "voice"
    /\ voiceName' = n
    /\ notice' = "none"
    /\ UNCHANGED <<histVars, uiVars, liveVars, ttsVars, recVars, page, alerts, uploads,
                   samples, isProcessing, vpHistory, vpOp, nextSample, vpStore>>
    /\ UNCHANGED <<playbackSpeed, wavVars, history, recordingError, deleting>>

\* mediaRecorder.onstop of VoicePersonalizer up to its await: the sample
\* is uploaded; the record toggle is disabled while isProcessing
SampleRecorded ==
    /\ page = "voice"
    /\ ~isProcessing /\ vpOp = NoOp
    /\ nextSample <= MaxSamples
    /\ isProcessing' = TRUE
    /\ vpOp' = [NoOp EXCEPT !.kind = "uploadSample"]
    /\ notice' = "none"
    /\ UNCHANGED <<histVars, uiVars, liveVars, ttsVars, recVars, page, alerts, uploads,
                   samples, voiceName, vpHistory, nextSample, vpStore>>
    /\ UNCHANGED <<playbackSpeed, wavVars, history, recordingError, deleting>>

\* uploadVoiceSample settles: the sample is appended and the error
\* cleared, or the error message is kept in recordingError
UploadSampleDone(ok) ==
    /\ vpOp.kind = "uploadSample"
    /\ IF ok
       THEN /\ samples' = Append(samples, nextSample)
            /\ nextSample' = nextSample + 1
            /\ recordingError' = "null"
       ELSE /\ recordingError' = "Failed to upload voice sample"
            /\ UNCHANGED <<samples, nextSample>>
    /\ isProcessing' = FALSE
    /\ vpOp' = NoOp
    /\ notice' = "none"
    /\ UNCHANGED <<histVars, uiVars, liveVars, ttsVars, recVars, page, alerts, uploads,
                   voiceName, vpHistory, vpStore>>
    /\ UNCHANGED <<playbackSpeed, wavVars, history, deleting>>

\* samples.length < 10
TooFewSamples(list) == Len(list) < MinSamples

\* !voiceSettings.name.trim()
NameMissing(name) == Trim(name) = <<>>

\* saveVoiceProfile up to its first await; its button is disabled while
\* isProcessing || !voiceSettings.name.trim()
SaveVoiceProfile ==
    /\ page = "voice"
    /\ ~isProcessing /\ Trim(voiceName) # <<>>
    /\ IF TooFewSamples(samples)
       THEN /\ alerts' = alerts \cup {"Please record at least 10 voice samples"}
            /\ notice' = "Please record at least 10 voice samples"
            /\ UNCHANGED <<isProcessing, vpOp>>
       ELSE IF NameMissing(voiceName)
       THEN /\ alerts' = alerts \cup {"Please give your custom voice a name"}
            /\ notice' = "Please give your custom voice a name"
            /\ UNCHANGED <<isProcessing, vpOp>>
       ELSE /\ isProcessing' = TRUE
            /\ vpOp' = [kind |-> "createProfile", name |-> voiceName,
                        count |-> Len(samples)]
            /\ notice' = "none"
            /\ UNCHANGED alerts
    /\ UNCHANGED <<histVars, uiVars, liveVars, ttsVars, recVars, page, uploads,
                   samples, voiceName, vpHistory, nextSample, vpStore>>
    /\ UNCHANGED <<playbackSpeed, wavVars, history, recordingError, deleting>>

\* what the requests of saveVoiceProfile come to: createVoiceProfile
\* answers with result.success and training and reload succeed; it answers
\* 2xx without result.success; a request fails
ProfileOutcomes == {"success", "notSuccess", "failed"}

\* saveVoiceProfile after its awaits: saveVoiceHistory, the form reset and
\* the success alert when result.success; the failure alert from the
\* catch; nothing but the finally otherwise
CreateProfileDone(outcome) ==
    /\ vpOp.kind = "createProfile"
    /\ outcome \in ProfileOutcomes
    /\ IF outcome = "success"
       THEN /\ vpStore' = saveHistory(vpStore, [profileName |-> vpOp.name,
                                                 samplesCount |-> vpOp.count])
            /\ vpHistory' = vpStore'
            /\ samples' = <<>>
            /\ voiceName' = <<>>
            /\ notice' = "Voice profile created successfully!"
       ELSE /\ notice' = IF outcome = "failed"
                         THEN "Failed to save voice profile" ELSE "none"
            /\ UNCHANGED <<vpStore, vpHistory, samples, voiceName>>
    /\ isProcessing' = FALSE
    /\ vpOp' = NoOp
    /\ UNCHANGED <<histVars, uiVars, liveVars, ttsVars, recVars, page, alerts, uploads,
                   nextSample>>
    /\ UNCHANGED <<playbackSpeed, wavVars, history, recordingError, deleting>>

\* deleteSample(sampleId) up to its await, from the bin of a sample; the
\* call holds the samples of the render of the click
DeleteSample(sampleId) ==
    /\ page = "voice"
    /\ \E i \in 1..Len(samples) : samples[i] = sampleId
    /\ \A d \in deleting : d.id # sampleId
    /\ deleting' = deleting \cup {[id |-> sampleId, samples |-> samples]}
    /\ notice' = "none"
    /\ UNCHANGED <<histVars, uiVars, liveVars, ttsVars, recVars, pageVars,
                   playbackSpeed, wavVars, history, recordingError>>

\* deleteVoiceSample settles: setSamples(samples.filter(..)), or the
\* error goes to the console
DeleteSampleDone(d, ok) ==
    /\ d \in deleting
    /\ deleting' = deleting \ {d}
    /\ samples' = IF ok THEN SelectSeq(d.samples, LAMBDA x : x # d.id) ELSE samples
    /\ notice' = "none"
    /\ UNCHANGED <<histVars, uiVars, liveVars, ttsVars, recVars, page, alerts, uploads,
                   voiceName, isProcessing, vpHistory, vpOp, nextSample, vpStore>>
    /\ UNCHANGED <<playbackSpeed, wavVars, history, recordingError>>

\* ------------------------------------------------------------- initial
InitHist ==
    /\ sttStore = <<>> /\ ttsStore = <<>>
    /\ sttHistory = <<>> /\ ttsHistory = <<>>
    /\ hasRandomUUID \in BOOLEAN
    /\ nextId = [stt |-> 1, tts |-> 1]
    /\ lastId = [stt |-> 0, tts |-> 0]
    /\ appended = [stt |-> <<>>, tts |-> <<>>]
    /\ onlyAppends = [stt |-> TRUE, tts |-> TRUE]
    /\ lastOp = "init" /\ preStt = <<>> /\ preTts = <<>>

\* the page after its first render and its mount effects, on a browser
\* with or without SpeechRecognition
InitLive ==
    /\ isLiveTranscribing = FALSE
    /\ interimTranscript = <<>> /\ liveSessionText = <<>> /\ transcribedText = <<>>
    /\ language = "en" /\ autoSpeak = TRUE
    /\ backendConnected = FALSE /\ healthPending = TRUE
    /\ text = <<>> /\ isLoading = FALSE /\ isPlaying = FALSE /\ audioFile = NoFile
    /\ recognition \in {NoRecognition, NewRecognition(FALSE, TRUE, "en", FALSE)}
    /\ detached = EmptyBag
    /\ ttsOps = <<>>
    /\ evLog = <<>>
    /\ lastLive = [op |-> "init", committed |-> <<>>]
    /\ sessionError = FALSE

InitRec ==
    /\ isRecording = FALSE
    /\ mediaRecorderRef = 0
    /\ audioChunksRef = <<>>
    /\ recorders = <<>>

\* the application opens on /speech-lab; VoicePersonalizer is not mounted
InitPage ==
    /\ page = "speechlab"
    /\ alerts = {}
    /\ uploads = <<>>
    /\ samples = <<>> /\ voiceName = <<>> /\ isProcessing = FALSE /\ vpHistory = <<>>
    /\ vpOp = NoOp /\ nextSample = 1 /\ vpStore = <<>>

\* useState(1.0) of playbackSpeed
InitSpeed == playbackSpeed = PlaybackSpeedDefault

\* no audio decoded yet: one channel of no frames, nothing encoded
InitWavIdle ==
    /\ audioBuffer = NoAudioBuffer
    /\ wavBuffer = <<>>
    /\ whisper = NoWhisper

\* History is not mounted; VoicePersonalizer shows no error and no alert
InitHistoryPage ==
    /\ history = <<>>
    /\ recordingError = "null" /\ deleting = {} /\ notice = "none"

InitCore == InitHist /\ InitLive /\ InitRec /\ InitPage /\ InitSpeed /\ InitHistoryPage

Init == InitCore /\ InitWavIdle

\* ------------------------------------------------- SpecAppend: the cap
AppendTexts == {<<"t">>}

NextAppend ==
    \/ /\ nextId.stt <= MaxAppends
       /\ \E c \in AppendTexts : SaveSTTHistoryCall(c, AccuracyWhisper)
       /\ UNCHANGED <<uiVars, liveVars, ttsVars, recVars, pageVars, auxVars>>
    \/ /\ nextId.tts <= MaxAppends
       /\ \E c \in AppendTexts : SaveTTSHistoryCall(c)
       /\ UNCHANGED <<uiVars, liveVars, ttsVars, recVars, pageVars, auxVars>>

InitAppend == Init /\ hasRandomUUID /\ recognition # NoRecognition

SpecAppend == InitAppend /\ [][NextAppend]_vars

\* --------------------------------------- SpecHistory: the maintenance
HistTexts == {<<"a">>, <<"b">>}

NextHistory ==
    \/ /\ nextId.stt <= MaxHistOps
       /\ \E c \in HistTexts : SaveSTTHistoryCall(c, AccuracyWhisper)
       /\ UNCHANGED <<uiVars, liveVars, ttsVars, recVars, pageVars, auxVars>>
    \/ /\ nextId.tts <= MaxHistOps
       /\ \E c \in HistTexts : SaveTTSHistoryCall(c)
       /\ UNCHANGED <<uiVars, liveVars, ttsVars, recVars, pageVars, auxVars>>
    \/ CleanupDuplicateHistory /\ UNCHANGED <<uiVars, liveVars, ttsVars, recVars, pageVars, auxVars>>
    \/ LoadHistory /\ UNCHANGED <<uiVars, liveVars, ttsVars, recVars, pageVars, auxVars>>
    \/ /\ \E type \in {"stt", "tts", "all"} : ClearHistory(type)
       /\ UNCHANGED <<uiVars, liveVars, ttsVars, recVars, pageVars, auxVars>>

SpecHistory == Init /\ [][NextHistory]_vars

\* ------------------- SpecMount: entries saved, the page opened again
NextMount ==
    \/ /\ nextId.stt <= MaxHistOps
       /\ \E c \in HistTexts : SaveSTTHistoryCall(c, AccuracyWhisper)
       /\ UNCHANGED <<uiVars, liveVars, ttsVars, recVars, pageVars, auxVars>>
    \/ /\ nextId.tts <= MaxHistOps
       /\ \E c \in HistTexts : SaveTTSHistoryCall(c)
       /\ UNCHANGED <<uiVars, liveVars, ttsVars, recVars, pageVars, auxVars>>
    \/ MountSpeechLab /\ UNCHANGED <<uiVars, liveVars, ttsVars, recVars, pageVars, auxVars>>
    \/ LoadHistory /\ UNCHANGED <<uiVars, liveVars, ttsVars, recVars, pageVars, auxVars>>
    \/ /\ \E type \in {"stt", "tts", "all"} : ClearHistory(type)
       /\ UNCHANGED <<uiVars, liveVars, ttsVars, recVars, pageVars, auxVars>>

SpecMount == Init /\ [][NextMount]_vars

\* ------------------------------- SpecHistoryPage: SpeechLab, then History
HistoryIds ==
    {<<k \o "-", n>> : k \in {"stt", "tts"}, n \in 1..(MaxPageOps + 1)}

NextHistoryPage ==
    \/ /\ page = "speechlab" /\ nextId.stt <= MaxPageOps
       /\ \E c \in HistTexts : SaveSTTHistoryCall(c, AccuracyWhisper)
       /\ UNCHANGED <<uiVars, liveVars, ttsVars, recVars, pageVars, auxVars>>
    \/ /\ page = "speechlab" /\ nextId.tts <= MaxPageOps
       /\ \E c \in HistTexts : SaveTTSHistoryCall(c)
       /\ UNCHANGED <<uiVars, liveVars, ttsVars, recVars, pageVars, auxVars>>
    \/ /\ page = "speechlab" /\ LoadHistory
       /\ UNCHANGED <<uiVars, liveVars, ttsVars, recVars, pageVars, auxVars>>
    \/ /\ page = "speechlab" /\ \E type \in {"stt", "tts", "all"} : ClearHistory(type)
       /\ UNCHANGED <<uiVars, liveVars, ttsVars, recVars, pageVars, auxVars>>
    \/ NavigateToHistory
    \/ FetchHistoryData
    \/ \E id \in HistoryIds : ToggleFavorite(id)
    \/ \E confirmed \in BOOLEAN : ClearAllHistory(confirmed)
    \/ \E ids \in SUBSET HistoryIds, confirmed \in BOOLEAN : DeleteItems(ids, confirmed)

SpecHistoryPage == Init /\ [][NextHistoryPage]_vars

\* --------------------------------------- SpecWav: encodeWAV on its inputs
SampleRates == {8000, 44100, 48000}
LayoutSamples == {-One, One}
QuantSamples == {-2000, -1001, -One, -500, -1, 0, 1, 500, One, 1001, 2000}

\* decoded audio of up to MaxFrames frames and MaxChannels channels, and
\* single samples around and beyond the range
AudioBuffers ==
    {[sampleRate |-> r, channels |-> ch] :
        r \in SampleRates,
        ch \in UNION {[1..mm -> [1..n -> LayoutSamples]] :
                         mm \in 1..MaxChannels, n \in 0..MaxFrames}}
    \cup {[sampleRate |-> 8000, channels |-> << <<x>> >>] : x \in QuantSamples}

InitWav ==
    InitCore /\ audioBuffer \in AudioBuffers /\ wavBuffer = <<>> /\ whisper = NoWhisper

NextWav == ConvertToWav

SpecWav == InitWav /\ [][NextWav]_vars

\* ------------------------ SpecWhisper: transcribeWithWhisper on its own
\* the recording of onstop, and uploaded files of two types
AudioBlobs ==
    {Blob("audio/webm", <<"webm">>), Blob("audio/wav", <<"wav">>),
     Blob("audio/mpeg", <<"mp3">>)}

\* what decoding makes of a blob: an exception, or audio of one channel
Decodings ==
    {[ok |-> FALSE, buffer |-> NoAudioBuffer]}
    \cup {[ok |-> TRUE, buffer |-> [sampleRate |-> r, channels |-> <<ch>>]] :
             r \in {8000, 44100}, ch \in {<<>>, <<0>>, <<One>>}}

NextWhisper ==
    \/ \E b \in AudioBlobs : WhisperStart(b)
    \/ \E d \in Decodings : WhisperConverted(d)
    \/ \E ok \in BOOLEAN : WhisperAnswered(ok)

SpecWhisper == Init /\ [][NextWhisper]_vars

\* ------------------------------------------ SpecLive: the live session
NextLive ==
    \/ StartLiveTranscription
    \/ StopLiveTranscription
    \/ \E o \in Objects, ev \in LiveEvents : OnResult(o, ev)
    \/ \E o \in Objects : OnError(o)
    \/ \E o \in Objects : OnEnd(o)
    \/ \E l \in Languages : SetLanguage(l)
    \/ \E b \in BOOLEAN : SetAutoSpeak(b)
    \/ ClearAll

InitLiveSpec == Init /\ hasRandomUUID

SpecLive == InitLiveSpec /\ [][NextLive]_vars

\* ------------------------------------------- SpecRec: the recorder
Recs == 1..Len(recorders)

RecorderSteps ==
    \/ \E r \in Recs : GetUserMediaGranted(r)
    \/ \E r \in Recs : GetUserMediaDenied(r)
    \/ \E r \in Recs : DataAvailable(r)
    \/ StopRecording
    \/ \E r \in Recs : AutoStopTimer(r)
    \/ \E r \in Recs, lastData \in BOOLEAN : StopTask(r, lastData)
    \/ \E r \in Recs, t \in RemoteTexts : TranscribeOk(r, t)
    \/ \E r \in Recs : TranscribeFail(r)
    \/ \E r \in Recs, t \in SampleTexts : SimulateDone(r, t)
    \/ \E ok \in BOOLEAN : HealthCheckDone(ok)

NextRec ==
    \/ Len(recorders) < MaxRecorders /\ StartRecording
    \/ RecorderSteps

InitRecSpec == Init /\ hasRandomUUID /\ recognition # NoRecognition

SpecRec == InitRecSpec /\ [][NextRec]_vars

\* ------------------- SpecFallback: the recorder, fewer overlapping starts
NextFallback ==
    \/ Len(recorders) < MaxSoloRecorders /\ StartRecording
    \/ RecorderSteps

SpecFallback == InitRecSpec /\ [][NextFallback]_vars

\* ----------------------- SpecStorage: the recorder, storage that may fail
NextStorage ==
    \/ Len(recorders) < MaxSoloRecorders /\ StartRecording
    \/ RecorderSteps
    \/ \E r \in Recs, t \in RemoteTexts \cup SampleTexts, retryFails \in BOOLEAN :
          StorageFailsAtSave(r, t, retryFails)

SpecStorage == InitRecSpec /\ [][NextStorage]_vars

\* --------------------- SpecCapture: the recorder and the live session
NextCapture ==
    \/ Len(recorders) < MaxSoloRecorders /\ StartRecording
    \/ RecorderSteps
    \/ StartLiveTranscription
    \/ StopLiveTranscription
    \/ \E o \in Objects : OnEnd(o)

SpecCapture == InitRecSpec /\ [][NextCapture]_vars

\* ------------------- SpecOutcome: the handlers of VoicePersonalizer
NextOutcome ==
    \/ NavigateToVoice
    \/ \E n \in VoiceNames : SetVoiceName(n)
    \/ SampleRecorded
    \/ \E ok \in BOOLEAN : UploadSampleDone(ok)
    \/ SaveVoiceProfile
    \/ \E outcome \in ProfileOutcomes : CreateProfileDone(outcome)
    \/ Cardinality(deleting) < MaxDeletes /\ \E id \in 1..MaxSamples : DeleteSample(id)
    \/ \E d \in deleting, ok \in BOOLEAN : DeleteSampleDone(d, ok)

SpecOutcome == InitRecSpec /\ [][NextOutcome]_vars

\* ---------------------------------------------------------------- claims
\* C1: starting from an empty collection of one kind, after N sequential
\* appends the persisted collection of that kind holds exactly the
\* min(N, 50) most recently appended entries, newest first.
C1_AppendKeepsNewest50 ==
    /\ onlyAppends.stt =>
          sttStore = SubSeq(appended.stt, 1, Min(Len(appended.stt), 50))
    /\ onlyAppends.tts =>
          ttsStore = SubSeq(appended.tts, 1, Min(Len(appended.tts), 50))

C1_Witness ==
    /\ Len(appended.stt) = 60
    /\ Len(sttStore) = 50
    /\ sttStore[1] = appended.stt[1]
    /\ sttStore[50] = appended.stt[50]

\* the ids that a collection holds exactly twice, in adjacent places: two
\* entries appended one after the other under one id
TwiceAdjacent(s) ==
    {i \in 1..(Len(s) - 1) :
        /\ s[i].id = s[i + 1].id
        /\ Cardinality({j \in 1..Len(s) : s[j].id = s[i].id}) = 2}

WithId(s, id) == SelectSeq(s, LAMBDA e : e.id = id)

\* C2: when a collection holds two entries with the same id, appended one
\* after the other, then after a dedupe pass exactly one entry with that id
\* remains and it is the more recently appended of the two (the one nearer
\* the front of the newest-first collection).
C2_DedupeKeepsNewer ==
    lastOp = "cleanup" =>
        /\ \A i \in TwiceAdjacent(preStt) :
              WithId(sttStore, preStt[i].id) = <<preStt[i]>>
        /\ \A i \in TwiceAdjacent(preTts) :
              WithId(ttsStore, preTts[i].id) = <<preTts[i]>>

\* what the code does there: one entry remains, the earlier appended one
C2_DedupeKeepsOlder ==
    lastOp = "cleanup" =>
        /\ \A i \in TwiceAdjacent(preStt) :
              WithId(sttStore, preStt[i].id) = <<preStt[i + 1]>>
        /\ \A i \in TwiceAdjacent(preTts) :
              WithId(ttsStore, preTts[i].id) = <<preTts[i + 1]>>

C2_Witness ==
    /\ lastOp = "cleanup"
    /\ \E i \in TwiceAdjacent(preStt) : preStt[i] # preStt[i + 1]

\* the finalized segments of an event, joined by single blanks
RECURSIVE JoinBlank(_)
JoinBlank(segs) ==
    IF segs = <<>> THEN <<>>
    ELSE IF Len(segs) = 1 THEN segs[1].transcript
    ELSE segs[1].transcript \o <<Blank>> \o JoinBlank(Tail(segs))

Finals(ev) == SelectSeq(ev, LAMBDA r : r.isFinal)
Hypotheses(ev) == SelectSeq(ev, LAMBDA r : ~r.isFinal)

Occurrences(pat, str) ==
    Cardinality({i \in 1..(Len(str) - Len(pat) + 1) :
                    SubSeq(str, i, i + Len(pat) - 1) = pat})

Scenario ==
    <<  <<Result(Hel, FALSE)>>, <<Result(Hello, FALSE)>>, <<Result(HelloWorld, TRUE)>>  >>

\* C3: a result event that carries only a non-final hypothesis replaces
\* interimText with it; one that carries a finalized segment appends it to
\* committedText and clears interimText.  After [interim "hel", interim
\* "hello", final "hello world"] interimText was "hel", "hello", "" and
\* committedText contains "hello world" exactly once.
C3_ResultMerging ==
    /\ lastLive.op = "result" =>
          LET ev == evLog[Len(evLog)] IN
          IF Finals(ev) = <<>>
          THEN /\ interimTranscript = JoinBlank(Hypotheses(ev))
               /\ liveSessionText = lastLive.committed
          ELSE /\ interimTranscript = <<>>
               /\ liveSessionText = lastLive.committed \o <<Blank>> \o JoinBlank(Finals(ev))
    /\ (lastLive.op = "result" /\ evLog = SubSeq(Scenario, 1, 1)) => interimTranscript = Hel
    /\ (lastLive.op = "result" /\ evLog = SubSeq(Scenario, 1, 2)) => interimTranscript = Hello
    /\ (lastLive.op = "result" /\ evLog = Scenario) => interimTranscript = <<>>
    /\ evLog = Scenario => Occurrences(HelloWorld, liveSessionText) = 1

C3_Witness ==
    /\ lastLive.op = "result"
    /\ evLog = Scenario
    /\ liveSessionText = <<Blank>> \o HelloWorld

StreamStarted == \E o \in Objects : Obj(o).status = "started"

\* C4: whenever the recognition stream ends while the session is still
\* live and no error occurred, the stream is started again, the session
\* remains live and committedText is unchanged.
C4_EndRestartsStream ==
    (lastLive.op = "end" /\ isLiveTranscribing /\ ~sessionError) =>
        /\ StreamStarted
        /\ liveSessionText = lastLive.committed

\* what the code does there: the session stays marked live and the text is
\* kept, with no stream started
C4_EndKeepsText ==
    (lastLive.op = "end" /\ isLiveTranscribing /\ ~sessionError) =>
        /\ ~StreamStarted
        /\ liveSessionText = lastLive.committed

C4_Witness == lastLive.op = "end" /\ isLiveTranscribing /\ ~sessionError

\* C5: a recognition stream error moves the session to idle, and the
\* stream is not started again by the end event that follows, nor by any
\* later event, until the user starts a session again.
C5_ErrorStopsSession ==
    sessionError => (~isLiveTranscribing /\ ~StreamStarted)

C5_Witness ==
    /\ sessionError
    /\ lastLive.op = "end"
    /\ lastLive.committed # <<>>

\* --------------------------- SpecValid: the handlers that validate
NextValid ==
    \/ \E ok \in BOOLEAN : HealthCheckDone(ok)
    \/ \E f \in Files \cup {NoFile} : HandleAudioUpload(f)
    \/ \E u \in Ups, t \in RemoteTexts : UploadOk(u, t)
    \/ \E u \in Ups : UploadFail(u)
    \/ \E u \in Ups, t \in SampleTexts : UploadSimulateDone(u, t)
    \/ SpeakTranscript
    \/ \E i \in Speaks : TTSFetchOk(i)
    \/ \E i \in Speaks, playFailed \in BOOLEAN : TTSFetchFail(i, playFailed)
    \/ \E i \in Speaks : UtteranceEnd(i)
    \/ \E i \in Speaks : UtteranceError(i)
    \/ \E i \in Speaks : AudioEnded(i)
    \/ NavigateToVoice
    \/ \E n \in VoiceNames : SetVoiceName(n)
    \/ SampleRecorded
    \/ \E ok \in BOOLEAN : UploadSampleDone(ok)
    \/ SaveVoiceProfile
    \/ \E outcome \in ProfileOutcomes : CreateProfileDone(outcome)

SpecValid == InitRecSpec /\ [][NextValid]_vars

\* ------------------------------------- SpecSpeak: the synthesis panel
NextSpeak ==
    \/ \E ok \in BOOLEAN : HealthCheckDone(ok)
    \/ \E t \in SpeakTexts : SetText(t)
    \/ \E v \in PlaybackSpeeds : SetPlaybackSpeed(v)
    \/ \E l \in Languages : SetLanguage(l)
    \/ Len(ttsOps) < MaxSpeakOps /\ SpeakText
    \/ \E i \in Speaks : TTSFetchOk(i)
    \/ \E i \in Speaks, playFailed \in BOOLEAN : TTSFetchFail(i, playFailed)
    \/ \E i \in Speaks : UtteranceEnd(i)
    \/ \E i \in Speaks : UtteranceError(i)
    \/ \E i \in Speaks : AudioEnded(i)
    \/ StopSpeech

SpecSpeak == InitRecSpec /\ [][NextSpeak]_vars

\* ------------------------------------------------------ claims C6..C9
\* the 30 s callback of recorder r runs
TimerFires(r) ==
    /\ r \in Recs
    /\ recorders[r].timer = "armed"
    /\ recorders'[r].timer = "fired"

\* C6: when the ceiling of a recording elapses while that recording is
\* still going on and the user has not stopped it, the recorder is stopped
\* as stopRecording stops it: the state leaves 'recording'
C6_TimerStopsRecording ==
    [][\A r \in 1..MaxRecorders :
         (TimerFires(r) /\ Recording(r) /\ isRecording /\ mediaRecorderRef = r)
            => (~isRecording' /\ recorders'[r].phase = "stopping")]_vars

\* C7: at most one recorder created by startRecording is recording, and
\* at most one microphone stream is open
C7_SingleRecordingSession ==
    /\ Cardinality({r \in Recs : Recording(r)}) <= 1
    /\ Cardinality({r \in Recs : recorders[r].streamOpen}) <= 1

\* recorder r ends its onstop handler in this step
Completes(r) ==
    /\ r \in Recs
    /\ recorders[r].phase # "done"
    /\ recorders'[r].phase = "done"

\* C8: a recording whose transcription request failed while the backend
\* was marked connected ends with a non-empty placeholder in
\* transcribedText and exactly one new speech-to-text entry, of an accuracy
\* below that of a successful remote transcription
C8_TranscriptionFallback ==
    [][\A r \in 1..MaxRecorders :
         (Completes(r) /\ recorders[r].path = "whisperFailed") =>
            /\ recorders[r].cConnected
            /\ transcribedText' \in SampleTexts
            /\ Trim(transcribedText') # <<>>
            /\ Len(sttStore') = Min(Len(sttStore) + 1, HistoryCap)
            /\ SubSeq(sttStore', 2, Len(sttStore')) = JsSlice(sttStore, HistorySliceEnd)
            /\ sttStore'[1].type = "stt"
            /\ sttStore'[1].content = transcribedText'
            /\ sttStore'[1].accuracy < AccuracyWhisper
            /\ \A i \in 1..Len(sttStore) : sttStore[i].id # sttStore'[1].id
            /\ ttsStore' = ttsStore]_vars

C8_Witness ==
    \E r \in Recs :
       /\ recorders[r].phase = "done"
       /\ recorders[r].path = "whisperFailed"
       /\ recorders[r].yielded
       /\ transcribedText \in SampleTexts
       /\ Len(sttStore) >= 1
       /\ sttStore[1].accuracy = AccuracyFallback

\* C9: a recording that was started and stopped, its onstop handler
\* finished, has put a transcript in transcribedText and a new entry in
\* the speech-to-text history
C9_StoppedRecordingYields ==
    \A r \in Recs : recorders[r].phase = "done" => recorders[r].yielded

\* ---------------------------------------------------------- claim C10
\* what a rejected call must leave alone: the transcript, the audio file,
\* the samples, the histories in storage and in memory, and every request
\* (uploads, synthesis, sample and profile requests, recordings)
Untouched ==
    UNCHANGED <<transcribedText, audioFile, samples, sttStore, ttsStore, sttHistory,
                ttsHistory, vpStore, vpHistory, uploads, ttsOps, vpOp, recorders,
                isLoading, isProcessing, voiceName>>

Audible == {i \in Speaks : ttsOps[i].pc \in {"playing", "speaking"}}

\* C12: in every reachable state at most one of the remote clips and local
\* utterances is playing: a new synthesis cancels the utterance in flight
\* and stops the clip that is playing before its own output is audible
C12_SingleAudibleOutput == Cardinality(Audible) <= 1

\* C13: when a remote clip or a local utterance of the synthesis path
\* finishes playing, isPlaying becomes false, and the object URL made for
\* a remote clip is revoked
C13_PlaybackCompletion ==
    [][\A i \in Speaks :
         (ttsOps[i].pc \in {"playing", "speaking"} /\ ttsOps'[i].pc = "done") =>
            /\ isPlaying' = FALSE
            /\ ttsOps[i].pc = "playing" =>
                  (ttsOps[i].url = "live" /\ ttsOps'[i].url = "revoked")]_vars

C13_Witness ==
    /\ ~isPlaying
    /\ \E i \in Speaks : ttsOps[i].pc = "done" /\ ttsOps[i].url = "revoked"
    /\ \E i \in Speaks : ttsOps[i].pc = "done" /\ ttsOps[i].utt # NoUtterance

\* --------------------------------------------------- claims C14, C15
\* C14: toggleFavorite(id) flips the favorite flag of the entry in the
\* list of the page and in the stored collection of its kind, so that
\* reloading the history from storage shows the list as it is after the
\* toggle
C14_FavoriteSurvivesReload ==
    (page = "history" /\ lastOp = "toggleFavorite") =>
        history = CombinedHistory(sttStore, ttsStore)

\* C15: clearHistory('stt') and clearHistory('tts') empty the collection
\* of that kind in storage and in memory and leave the other kind as it
\* is in both; clearHistory('all') and clearAllHistory empty both kinds
\* in both places
C15_ClearByKind ==
    [][/\ \A type \in {"stt", "tts", "all"} :
            ClearHistory(type) =>
               /\ type \in {"stt", "all"} => (sttStore' = <<>> /\ sttHistory' = <<>>)
               /\ type \in {"tts", "all"} => (ttsStore' = <<>> /\ ttsHistory' = <<>>)
               /\ type = "stt" => (ttsStore' = ttsStore /\ ttsHistory' = ttsHistory)
               /\ type = "tts" => (sttStore' = sttStore /\ sttHistory' = sttHistory)
       /\ ClearAllHistory(TRUE) =>
               (sttStore' = <<>> /\ ttsStore' = <<>> /\ history' = <<>>)]_vars

C15_Witness ==
    /\ lastOp = "clear"
    /\ preStt # <<>> /\ sttStore = <<>> /\ sttHistory = <<>>
    /\ ttsStore # <<>> /\ ttsHistory # <<>>

\* ------------------------------------------------------------ claim C16
\* C16: after startLiveTranscription, liveSessionText and the interim text
\* are empty, the session is live, and a recognition stream configured
\* with the selected language is running
C16_StartRunsStream ==
    lastLive.op = "start" =>
        /\ liveSessionText = <<>>
        /\ interimTranscript = <<>>
        /\ isLiveTranscribing
        /\ \E o \in Objects :
              /\ Obj(o).status = "started"
              /\ Obj(o).lang = browserLanguageMap(language)

\* --------------------------------------------------- claims C17, C18
\* the DataView getters, little-endian
getUint16(buf, offset) == buf[offset + 1] + 256 * buf[offset + 2]
getUint32(buf, offset) ==
    buf[offset + 1] + 256 * buf[offset + 2] + 65536 * buf[offset + 3]
        + 16777216 * buf[offset + 4]
getInt16(buf, offset) ==
    IF getUint16(buf, offset) >= 32768
    THEN getUint16(buf, offset) - 65536 ELSE getUint16(buf, offset)

Encoded == wavBuffer # <<>>

\* C17: for N frames, M channels and sample rate R the output has
\* 44 + N*M*2 bytes, 'RIFF' at 0, 'WAVE' at 8, 'fmt ' at 12, 'data' at 36,
\* the little-endian fields audio format 1, channels M, sampleRate R,
\* byteRate R*M*2, blockAlign M*2, bitsPerSample 16, and the sample of
\* frame i, channel c at byte offset 44 + (i*M + c)*2
C17_WavLayout ==
    Encoded =>
        LET N == Len(audioBuffer.channels[1])
            M == Len(audioBuffer.channels)
            R == audioBuffer.sampleRate
            alone(x) == encodeWAV([sampleRate |-> R, channels |-> << <<x>> >>])
        IN  /\ Len(wavBuffer) = 44 + N * M * 2
            /\ SubSeq(wavBuffer, 1, 4) = <<82, 73, 70, 70>>
            /\ SubSeq(wavBuffer, 9, 12) = <<87, 65, 86, 69>>
            /\ SubSeq(wavBuffer, 13, 16) = <<102, 109, 116, 32>>
            /\ SubSeq(wavBuffer, 37, 40) = <<100, 97, 116, 97>>
            /\ getUint16(wavBuffer, 20) = 1
            /\ getUint16(wavBuffer, 22) = M
            /\ getUint32(wavBuffer, 24) = R
            /\ getUint32(wavBuffer, 28) = R * M * 2
            /\ getUint16(wavBuffer, 32) = M * 2
            /\ getUint16(wavBuffer, 34) = 16
            /\ \A i \in 0..(N - 1), c \in 0..(M - 1) :
                  getInt16(wavBuffer, 44 + (i * M + c) * 2)
                     = getInt16(alone(audioBuffer.channels[c + 1][i + 1]), 44)

C17_Witness ==
    /\ Encoded
    /\ Len(audioBuffer.channels) = 2
    /\ audioBuffer.channels[1] = <<1000, -1000>>
    /\ audioBuffer.channels[2] = <<-1000, 1000>>
    /\ audioBuffer.sampleRate = 44100
    /\ Len(wavBuffer) = 52

\* C18: the sample 1.0 encodes to 0x7FFF, -1.0 to -0x8000, 0.0 to 0, every
\* sample above 1 as 1.0 and every sample below -1 as -1.0, so that no
\* encoded sample wraps around the signed 16-bit range
C18_SampleQuantization ==
    Encoded =>
        \A c \in 1..Len(audioBuffer.channels), i \in 1..Len(audioBuffer.channels[1]) :
           LET x == audioBuffer.channels[c][i]
               y == getInt16(wavBuffer, 44 + ((i - 1) * Len(audioBuffer.channels) + c - 1) * 2)
           IN  /\ x = 1000 => y = 32767
               /\ x = -1000 => y = -32768
               /\ x = 0 => y = 0
               /\ x > 1000 => y = 32767
               /\ x < -1000 => y = -32768
               /\ (x >= 0 /\ x <= 1000) => (y >= 0 /\ y <= 32767)
               /\ (x <= 0 /\ x >= -1000) => (y <= 0 /\ y >= -32768)

C18_Witness ==
    /\ Encoded
    /\ audioBuffer.channels = << <<2000>> >>
    /\ getInt16(wavBuffer, 44) = 32767

\* --------------------------------------------------- claims C19, C20
\* C19: between a session start and the next start or clear-all, every
\* change of liveSessionText appends a finalized text to its previous
\* value; stream end, restart, stream error and stopLiveTranscription
\* leave it as it is, so the text stays after the stop
C19_CommittedTextOnlyGrows ==
    [][/\ (liveSessionText' # liveSessionText
             /\ lastLive'.op \notin {"start", "clearAll"}) =>
            /\ lastLive'.op = "result"
            /\ \E ev \in LiveEvents : \E k \in 1..Len(ev) :
                  /\ ev[k].isFinal
                  /\ liveSessionText' = liveSessionText \o <<Blank>> \o ev[k].transcript
       /\ lastLive'.op \in {"end", "error", "stop"} =>
            liveSessionText' = liveSessionText]_vars

C19_Witness ==
    /\ lastLive.op = "stop"
    /\ ~isLiveTranscribing
    /\ liveSessionText = <<Blank>> \o Hello \o <<Blank>> \o HelloWorld

\* C20: while a session is live with auto-speak enabled, a result event
\* that commits finalized text hands that text to handleTextToSpeech
C20_AutoSpeakDispatches ==
    (/\ lastLive.op = "result"
     /\ isLiveTranscribing /\ autoSpeak
     /\ liveSessionText # lastLive.committed) =>
        /\ ttsOps # <<>>
        /\ liveSessionText
              = lastLive.committed \o <<Blank>> \o ttsOps[Len(ttsOps)].text

\* ------------------------------------------------------------ claim C21
\* C21: convertToWav returns a blob that is audio/wav already as it is;
\* when decoding or encoding fails the original blob is returned and
\* uploaded; the failure of the conversion never makes the transcription
\* fail (it fails only with the request)
C21_ConversionIsBestEffort ==
    /\ whisper.pc \in {"fetching", "resolved", "rejected"} =>
          /\ whisper.response = "none" => whisper.pc = "fetching"
          /\ (whisper.audioBlob.type = "audio/wav" \/ ~whisper.decoded) =>
                whisper.wavBlob = whisper.audioBlob
    /\ whisper.pc = "rejected" => whisper.response = "failed"

C21_Witness ==
    /\ whisper.pc = "resolved"
    /\ ~whisper.decoded
    /\ whisper.audioBlob = Blob("audio/webm", <<"webm">>)
    /\ whisper.wavBlob = whisper.audioBlob

\* --------------------------------------------------- claims C22, C24
\* C22: after stopRecording on an active recording isRecording is false
\* and, once its stop handler is over, every track of its microphone
\* stream has been stopped, whatever the path: transcription success or
\* failure, no chunks, failure of the history write
C22_StopReleasesMicrophone ==
    \A r \in Recs : recorders[r].phase = "done" => ~recorders[r].streamOpen

\* C24: when the history cannot be read or written while the entry of a
\* transcribed recording is saved, the operation goes on in memory: the
\* transcript obtained stays in transcribedText, the loading flag is
\* cleared, the microphone is released
C24_StorageFailureTolerated ==
    [][\A r \in 1..MaxRecorders, t \in RemoteTexts \cup SampleTexts,
          retryFails \in BOOLEAN :
          (r \in Recs /\ StorageFailsAtSave(r, t, retryFails)) =>
             /\ transcribedText' = t
             /\ ~isLoading'
             /\ ~recorders'[r].streamOpen]_vars

\* ------------------------------------------------------------ claim C23
\* a recording holds the microphone while its stream is open; a live
\* session holds it from SpeechRecognition.start() until the stream ends
RecordingHoldsMicrophone == \E r \in Recs : recorders[r].streamOpen
LiveHoldsMicrophone == \E o \in Objects : Obj(o).status \in {"started", "stopping"}

\* C23: at most one of the recording and the live session holds the
\* microphone; starting one while the other is active does not make both
\* capture
C23_MicrophoneExclusive == ~(RecordingHoldsMicrophone /\ LiveHoldsMicrophone)

\* ------------------------------------------------------------ claim C25
\* a handler of VoicePersonalizer that awaited a request ends in this step
ProfileRequestEnds == vpOp.kind = "createProfile" /\ vpOp'.kind = "none"
SampleRequestEnds == vpOp.kind = "uploadSample" /\ vpOp'.kind = "none"
DeleteRequestEnds == deleting' # deleting /\ deleting' \subseteq deleting

\* C25: every action of the user that started side effects ends in a
\* success the user sees or in an error message shown to the user,
\* whatever the service answers: saveVoiceProfile when the answer does not
\* report success and deleteSample when the request fails included
C25_TerminalVisibleOutcome ==
    [][/\ ProfileRequestEnds => notice' # "none"
       /\ SampleRequestEnds => (samples' # samples \/ recordingError' # "null")
       /\ DeleteRequestEnds =>
             (samples' # samples \/ notice' # "none" \/ recordingError' # recordingError)
      ]_vars

\* ------------------------------------------------------------ claim C26
\* C26: after a confirmed deleteItems(ids) the entries with those ids are
\* in the list of the page no more and in the stored collections no more,
\* so that loading the history again does not show them; the other
\* entries stay as they are
C26_DeletedStayDeleted ==
    [][\A ids \in SUBSET HistoryIds :
          DeleteItems(ids, TRUE) =>
             LET reloaded == CombinedHistory(sttStore', ttsStore')
             IN  /\ \A i \in 1..Len(history') : history'[i].id \notin ids
                 /\ \A i \in 1..Len(reloaded) : reloaded[i].id \notin ids
                 /\ history' = SelectSeq(history, LAMBDA item : item.id \notin ids)]_vars

\* ------------------------------------------------------------ claim C27
\* C27: whenever isLiveTranscribing is true, start() has been called on
\* the recognition object recognitionRef.current refers to; a change of
\* language or of auto-speak during a session does not leave the session
\* live with an object that was never started
C27_LiveFlagMatchesStream ==
    isLiveTranscribing => recognition.status \notin {"none", "idle"}

\* ------------------------------------------------------------ claim C28
\* C28: after the mount sequence (loadHistory, then
\* cleanupDuplicateHistory) the lists in memory equal the stored
\* collections, also when storage held entries with the same id before
\* the mount
C28_LoadedMatchesStorage ==
    lastOp = "mount" => (sttHistory = sttStore /\ ttsHistory = ttsStore)

\* ------------------------------------------------------------ claim C29
\* the onstop handler of recorder r assembles its blob in this step
AssemblesBlob(r) ==
    /\ r \in Recs
    /\ recorders[r].phase = "stopping"
    /\ recorders'[r].phase \in {"transcribing", "simulating"}

\* C29: the chunks the stop handler of a recording assembles into its blob
\* are chunks its own recorder delivered; a new recording that resets
\* audioChunksRef, or two recorders at once, never put the chunk of
\* another recorder into the blob
C29_ChunkBufferIsolated ==
    [][\A r \in 1..MaxRecorders :
          AssemblesBlob(r) =>
             \A i \in 1..Len(audioChunksRef') : audioChunksRef'[i] = r]_vars

\* ------------------------------------------------------------ claim C30
\* C30: isPlaying is true only while a clip or an utterance is playing:
\* after an error of the local synthesis, after a new synthesis cancelled
\* the utterance in flight and after stopSpeech, isPlaying is false when
\* nothing is audible, and nothing is audible when isPlaying is false
C30_IsPlayingReflectsPlayback == isPlaying <=> Audible # {}

====
